---- MODULE Spec2Model ----
(***************************************************************************)
(* AutoDropShip (src/main.py): the marketplace publishing workflow.        *)
(*                                                                         *)
(* The handlers are asyncio coroutines run by one event loop, so the code  *)
(* between two suspensions of a handler is one atomic step.  Every action  *)
(* below is one such segment: it starts where a request enters the handler *)
(* or where the handler resumes, and it runs up to the next suspension or  *)
(* to the handler's response.  A handler is suspended in an awaited        *)
(* provider call, in `await image.read()`, and in the exit of an           *)
(* `async with httpx.AsyncClient()` block, which awaits the close of the   *)
(* connections the client holds.  After /add_product returned, the close   *)
(* of an upload held on disk suspends the request once more before its     *)
(* response starts.  The API configuration read at start-up (environ) is   *)
(* complete except under SpecAuth, which starts in any configuration.      *)
(*                                                                         *)
(* Encoding of Python / JSON values as integers:                            *)
(*   NoKey  a dictionary key that is absent                                 *)
(*   None   Python None, JSON null                                          *)
(*   n >= 1 the integer n (tokens, ids)                                     *)
(*   Str(v) the string str(v), see Str                                      *)
(***************************************************************************)
EXTENDS Integers, Sequences, FiniteSets, TLC

\* ------------------------------------------------------------- bounds
\* The catalog holds at most MaxItems products.
MaxItems == 2
\* Request slots: at most NReq handlers are in flight at once.
NReq == 2
\* The clock runs from 1 to MaxTime.
MaxTime == 3
\* The token endpoints issue at most MaxIssued token pairs.
MaxIssued == 3
\* Item ids requested range over -NegIds .. MaxItems.
NegIds == 1

\* ------------------------------------------------------------- values
NoKey == -1
None == 0
\* str(v) of an id: the string "None" for None and the decimal string of n
\* otherwise.  Strings are the integers from StrBase on, so that no string
\* equals None, NoKey or an integer id.
StrBase == 100
Str(v) == IF v = None THEN StrBase ELSE StrBase + v

\* dict.get(key, default)
Get(v, default) == IF v = NoKey THEN default ELSE v
\* `not v` for a value read with dict.get(key)
Falsy(v) == Get(v, None) = None

Slots == 1..NReq
ItemIds == (0 - NegIds)..MaxItems

\* Values the providers may put into their responses.
ExpiresIn == {1}
OfferIds == {None, 1}
EbayListingIds == {None, Str(1)}
EtsyListingIds == {None, 1}
ShopIds == {7}
ShopNames == {Str(s) : s \in ShopIds}
Skus == {1}
\* (price, cost) pairs submitted with the product form.
ProductInputs == {<<20, 12>>}

VARIABLES
    catalog,    \* the content of catalog.json (a missing file reads as [])
    session,    \* the session cookie the operator's browser holds
    now,        \* datetime.now().timestamp()
    issued,     \* number of token pairs the token endpoints have issued
    req,        \* the handler invocations, one record per slot
    environ     \* the API configuration read with os.getenv at start-up

vars == <<catalog, session, now, issued, req, environ>>

\* ------------------------------------------------------------- helpers
\* The float arithmetic of round((num / den) * 100, 2), for integers
\* num > 0 and den > 0.  The quotient and the product are IEEE 754 doubles:
\* each is the exact result rounded to a significand of 53 bits, half to
\* even.  The significand is followed through its last eight bits and the
\* remainder of the division, which decide both roundings.
Abs(x) == IF x >= 0 THEN x ELSE 0 - x
Sign(x) == IF x > 0 THEN 1 ELSE IF x < 0 THEN 0 - 1 ELSE 0

\* num / den scaled by powers of two into [1, 2).
RECURSIVE Normalized(_, _)
Normalized(a, p) ==
    IF a < p THEN Normalized(2 * a, p)
    ELSE IF a >= 2 * p THEN Normalized(a, 2 * p)
    ELSE <<a, p>>

\* 4 * n more bits of the quotient, four at a time: the remainder and the
\* bits modulo 256.
RECURSIVE QuotientBits(_, _, _, _)
QuotientBits(n, rem, low, p) ==
    IF n = 0 THEN <<rem, low>>
    ELSE QuotientBits(n - 1, (16 * rem) % p,
                      (16 * low + ((16 * rem) \div p)) % 256, p)

\* The sign of float(num / den) * 100 minus the exact 100 * num / den.
FloatSide(num, den) ==
    LET ap == Normalized(num, den)
        a == ap[1]
        p == ap[2]
        fl == QuotientBits(13, a - p, 1, p)
        rem == fl[1]
        up == 2 * rem > p \/ (2 * rem = p /\ fl[2] % 2 = 1)
        \* the error of the quotient, in units of its last bit, times p
        err == IF up THEN p - rem ELSE 0 - rem
        low == IF up THEN (fl[2] + 1) % 256 ELSE fl[2]
        \* the product drops 7 bits when it reaches 2^59, else 6
        unit == IF 25 * a > 32 * p \/ (25 * a = 32 * p /\ err > 0) THEN 128 ELSE 64
        lost == (100 * low) % unit
        odd == ((100 * low) \div unit) % 2 = 1
        err2 == IF 2 * lost > unit \/ (2 * lost = unit /\ odd)
                THEN unit - lost ELSE 0 - lost
    IN Sign(100 * err + err2 * p)

\* round((num / den) * 100, 2) for den > 0, in hundredths: the hundredth
\* nearest to the float product, which at a tie of the exact quotient lies
\* on the side of the float's error (160, 67 gives 58.13 and 160, 73 gives
\* 54.37), and half to even when the float is the tie itself.
Round2(num, den) ==
    LET a == Abs(num)
        q == (10000 * a) \div den
        r == (10000 * a) % den
        side == IF 2 * r = den THEN FloatSide(a, den) ELSE 0
        m == IF \/ 2 * r > den
                \/ (2 * r = den /\ (side > 0 \/ (side = 0 /\ q % 2 = 1)))
             THEN q + 1 ELSE q
    IN IF num >= 0 THEN m ELSE 0 - m

\* The margin in hundredths of a percent.
calculate_profit_margin(price, cost) ==
    IF price <= 0 THEN 0 ELSE Round2(price - cost, price)

\* The product dictionary add_product builds: no listing id keys.
NewProduct(price, cost) ==
    [ price |-> price, cost |-> cost,
      predicted_profit_margin |-> calculate_profit_margin(price, cost),
      published_ebay |-> FALSE, published_etsy |-> FALSE,
      ebay_listing_id |-> NoKey, etsy_listing_id |-> NoKey ]

EmptySession ==
    [ ebay_access_token |-> NoKey, ebay_refresh_token |-> NoKey,
      ebay_token_expiry |-> NoKey,
      etsy_access_token |-> NoKey, etsy_refresh_token |-> NoKey,
      etsy_token_expiry |-> NoKey,
      etsy_shop_id |-> NoKey, etsy_shop_name |-> NoKey ]

IdleReq ==
    [ pc |-> "idle", kind |-> "none", item_id |-> 0, catalog |-> <<>>,
      access_token |-> None, shop_id |-> None, sku |-> 0,
      offer_id |-> None, listing_id |-> None, calls |-> <<>>,
      status |-> 0, detail |-> "", cause |-> "", state |-> None,
      price |-> 0, cost |-> 0, session |-> EmptySession, raced |-> FALSE ]

\* A provider call as it is sent: the bearer token of its Authorization
\* header (None for the token endpoints, which use Basic authentication) and
\* the identifier it addresses.
Call(api, token, arg) ==
    [ api |-> api, token |-> token, arg |-> arg, result |-> "pending", text |-> "" ]

Issue(q, api, token, arg) == Append(q.calls, Call(api, token, arg))

\* The awaited call has returned.  What the provider answered is recorded
\* with the call: "ok" (a success status), "fail" (another status), "raise"
\* (no response: the client raised) or "incomplete" (a 200 response without
\* a key the handler reads).
Returned(q, res) == [q.calls EXCEPT ![Len(q.calls)].result = res]

\* Status codes of the listing calls; 0: the client raised.  The inventory
\* call answers 200, 201 or 204 on success, the creating calls 200 or 201.
Statuses == {0, 200, 201, 204, 400}
CreateStatuses == {0, 200, 201, 400}
CallResult(status) ==
    IF status = 0 THEN "raise"
    ELSE IF status \in {200, 201, 204} THEN "ok" ELSE "fail"
TokenResult(resp) ==
    IF resp.status = 0 THEN "raise"
    ELSE IF resp.status # 200 THEN "fail"
    ELSE IF resp.expires_in = NoKey THEN "incomplete" ELSE "ok"
ShopResult(resp) ==
    IF resp.status = 0 THEN "raise"
    ELSE IF resp.status # 200 THEN "fail"
    ELSE IF resp.shop_id = NoKey \/ resp.shop_name = NoKey THEN "incomplete" ELSE "ok"

\* response.text of a listing call: the provider's diagnostic message in the
\* body of a response with a failure status.
ResponseText(status) ==
    IF CallResult(status) = "fail" THEN "provider diagnostic" ELSE ""

\* The awaited listing call has returned with the status and its body.
Answered(q, status) ==
    [q.calls EXCEPT ![Len(q.calls)].result = CallResult(status),
                    ![Len(q.calls)].text = ResponseText(status)]

\* The handler's response.  Its local variables are gone; the record keeps
\* what the handler did: the calls it made, the listing id it obtained and
\* the response.
Respond(q, status, detail) ==
    [q EXCEPT !.pc = "done", !.status = status, !.detail = detail,
              !.catalog = <<>>, !.access_token = None, !.shop_id = None,
              !.sku = 0, !.offer_id = None, !.price = 0, !.cost = 0]

\* `except Exception as e: raise HTTPException(status_code=500,
\* detail=f"<prefix>: {str(e)}")`: the response carries the fixed prefix and
\* the text of the exception the try block raised.
Wrapped(q, prefix, e) == Respond([q EXCEPT !.cause = e], 500, prefix)

\* The handler leaves its `async with httpx.AsyncClient()` block while the
\* client holds the connection of an answered call: the exit awaits the
\* close of the client.  The handler is bound for the response (status,
\* detail); its locals and its session are as it left the block.
Leaving(q, status, detail) ==
    [q EXCEPT !.pc = "close", !.status = status, !.detail = detail]

\* The block is left by an exception e, which the except clause wraps once
\* the client is closed.
LeavingWrapped(q, prefix, e) == Leaving([q EXCEPT !.cause = e], 500, prefix)

\* An exception that no handler catches: ServerErrorMiddleware, which is
\* outside SessionMiddleware, answers 500 and no cookie is set.
Crashed(q) == Respond([q EXCEPT !.session = EmptySession], 500, "Internal Server Error")

\* SessionMiddleware: request.session is the content of the session cookie
\* the request carried, and the handler reads and writes this copy.  When
\* the response starts the middleware sets the cookie to the copy, unless
\* the copy is empty.
Persisted(cookie, q) ==
    IF q.pc = "done" /\ q.session # EmptySession THEN q.session ELSE cookie

\* The handler in slot r has run up to its next await or to its response,
\* and d is its record.  A response sets the cookie and ends the request's
\* copy of the session.
Proceed(r, d) ==
    /\ session' = Persisted(session, d)
    /\ req' = [req EXCEPT ![r] =
                 IF d.pc = "done" THEN [d EXCEPT !.session = EmptySession] ELSE d]

\* A request enters: its session is loaded from the cookie it carries.
Entered(kind) == [IdleReq EXCEPT !.kind = kind, !.session = session]

\* str(e) of the exception a try block raises after a call returned with
\* the status: the client's error when the call itself raised (status 0),
\* else that of the HTTPException the handler raises, which reads
\* "<status_code>: <detail>".
Raised(status, code, detail) ==
    IF status = 0 THEN "client error" ELSE ToString(code) \o ": " \o detail

InFlight(q) == q.pc \notin {"idle", "done"}
Quiet == \A r \in Slots : ~InFlight(req[r])
\* A new request takes the lowest free slot.
Free(r) == /\ ~InFlight(req[r])
           /\ \A s \in Slots : s < r => InFlight(req[s])

\* catalog[item_id] of a Python list: negative indices count from the end.
InRange(item_id, cat) == (0 - Len(cat)) <= item_id /\ item_id < Len(cat)
Index(item_id, cat) == IF item_id >= 0 THEN item_id + 1 ELSE Len(cat) + item_id + 1

\* `if item_id >= len(catalog)`
ItemNotFound(item_id, cat) == item_id >= Len(cat)

\* Faulty variant: a token counts as expired at the instant of its expiry.
ExpiredOrDue(t, expiry) == t >= Get(expiry, 0)

\* `datetime.now().timestamp() > request.session.get(<expiry>, 0)`
Expired(t, expiry) == t > Get(expiry, 0)

\* ------------------------------------------------------------- Init
\* The API configuration: for each variable of the environment, whether
\* os.getenv found it (otherwise the module constant is None).
Configured ==
    [ ETSY_CLIENT_ID |-> TRUE, ETSY_CLIENT_SECRET |-> TRUE, ETSY_REDIRECT_URI |-> TRUE,
      EBAY_CLIENT_ID |-> TRUE, EBAY_CLIENT_SECRET |-> TRUE, EBAY_REDIRECT_URI |-> TRUE ]

\* Deployments: the configured one, and those that lack the client id or
\* the redirect URI of Etsy or the client id of eBay.
Environments ==
    { Configured,
      [Configured EXCEPT !.ETSY_CLIENT_ID = FALSE],
      [Configured EXCEPT !.ETSY_REDIRECT_URI = FALSE],
      [Configured EXCEPT !.EBAY_CLIENT_ID = FALSE] }

\* The application has started in the environment env: no catalog.json, no
\* session cookie, no request.
Started(env) ==
    /\ catalog = <<>>
    /\ session = EmptySession
    /\ now = 1
    /\ issued = 0
    /\ req = [r \in Slots |-> IdleReq]
    /\ environ = env

\* The configured deployment.
Init == Started(Configured)

\* Any deployment.
InitAuth == \E env \in Environments : Started(env)

\* ------------------------------------------------------------- clock
Tick ==
    /\ now < MaxTime
    /\ now' = now + 1
    /\ UNCHANGED <<catalog, session, issued, req, environ>>

\* ------------------------------------------------------------- add_product
\* Product submissions that await the read of their upload.
Reading == {s \in Slots : req[s].pc = "read"}

\* /add_product up to `await image.read()`: the file of the upload is
\* opened.  The catalog holds at most MaxItems products once every
\* submission in flight has appended its own.
add_product(r, price, cost) ==
    /\ Free(r)
    /\ Len(catalog) + Cardinality(Reading) < MaxItems
    /\ Proceed(r, [Entered("add_product") EXCEPT !.pc = "read",
                                                 !.price = price, !.cost = cost])
    /\ UNCHANGED <<catalog, now, issued, environ>>

\* The upload is read: load_catalog, append, save_catalog run without an
\* await between them and the handler returns its redirect.  FastAPI closes
\* the upload before the response starts: a file the form parser rolled to
\* disk (an upload over 1 MiB) is closed in the thread pool, a file held in
\* memory at once.
add_product_read(r, on_disk) ==
    LET q == req[r] IN
    /\ q.pc = "read" /\ q.kind = "add_product"
    /\ catalog' = Append(catalog, NewProduct(q.price, q.cost))
    /\ Proceed(r, IF on_disk
                  THEN [q EXCEPT !.pc = "upload", !.status = 303, !.detail = "/catalog_ui"]
                  ELSE Respond(q, 303, "/catalog_ui"))
    /\ UNCHANGED <<now, issued, environ>>

\* The upload of a product submission is closed: the response starts.
upload_closed(r) ==
    LET q == req[r] IN
    /\ q.pc = "upload"
    /\ Proceed(r, Respond(q, q.status, q.detail))
    /\ UNCHANGED <<catalog, now, issued, environ>>

\* ------------------------------------------------------------- client
\* The exit of `async with httpx.AsyncClient()` returns: the handler goes on
\* to the response it was bound for, and SessionMiddleware sets the cookie.
client_closed(r) ==
    LET q == req[r] IN
    /\ q.pc = "close"
    /\ Proceed(r, Respond(q, q.status, q.detail))
    /\ UNCHANGED <<catalog, now, issued, environ>>

\* ------------------------------------------------------------- token endpoint
\* A response of a token endpoint.  status 0: the client raised and holds no
\* connection.  A 200 response carries the next access token; it may carry
\* a refresh token and it may lack expires_in.
TokenResponses ==
    { [status |-> 0, access_token |-> NoKey, refresh_token |-> NoKey, expires_in |-> NoKey],
      [status |-> 400, access_token |-> NoKey, refresh_token |-> NoKey, expires_in |-> NoKey] }
    \cup
    { [status |-> 200, access_token |-> issued + 1, refresh_token |-> rt, expires_in |-> e] :
        rt \in {NoKey, issued + 1}, e \in ExpiresIn \cup {NoKey} }

Issued(resp) == IF resp.status = 200 THEN issued + 1 ELSE issued

\* ------------------------------------------------------------- callbacks
\* Faulty variant: a callback that arrives without a state parameter is
\* answered 400 before the token request.
CallbackBegunVerified(kind, api, state) ==
    IF state = None
    THEN Respond(Entered(kind), 400, "Invalid state")
    ELSE [Entered(kind) EXCEPT !.pc = "token", !.state = state,
                               !.calls = <<Call(api, None, 0)>>]

\* A callback up to the awaited token request: the payload is built from
\* the code; the state parameter is received and read nowhere.
CallbackBegun(kind, api, state) ==
    [Entered(kind) EXCEPT !.pc = "token", !.state = state,
                          !.calls = <<Call(api, None, 0)>>]

\* /callback/ebay up to the awaited token request.
callback_ebay(r, state) ==
    /\ Free(r)
    /\ Proceed(r, CallbackBegun("callback_ebay", "ebay_token", state))
    /\ UNCHANGED <<catalog, now, issued, environ>>

\* Faulty variant: the status of the token response is not checked.
TokenExchangeUnchecked(resp) == TRUE

\* `if response.status_code != 200: raise HTTPException(...)` of the callbacks.
TokenExchanged(resp) == resp.status = 200

\* Faulty variant: the callback starts a new session for the tokens.
EbayAuthorizedAfresh(s, resp, t) ==
    [EmptySession EXCEPT !.ebay_access_token = resp.access_token,
                         !.ebay_refresh_token = Get(resp.refresh_token, None),
                         !.ebay_token_expiry =
                             IF resp.expires_in = NoKey
                             THEN s.ebay_token_expiry ELSE t + resp.expires_in]

\* The session after the three assignments of callback_ebay; the third one
\* raises KeyError when the response has no expires_in.
EbayAuthorized(s, resp, t) ==
    [s EXCEPT !.ebay_access_token = resp.access_token,
              !.ebay_refresh_token = Get(resp.refresh_token, None),
              !.ebay_token_expiry =
                  IF resp.expires_in = NoKey THEN @ ELSE t + resp.expires_in]

callback_ebay_token(r, resp) ==
    LET q == req[r]
        d == [q EXCEPT !.calls = Returned(q, TokenResult(resp))]
        a == [d EXCEPT !.session = EbayAuthorized(q.session, resp, now)]
    IN
    /\ q.pc = "token" /\ q.kind = "callback_ebay"
    /\ resp.status = 200 => issued < MaxIssued
    /\ issued' = Issued(resp)
    /\ Proceed(r,
         IF resp.status = 0
         THEN Wrapped(d, "eBay authentication error", Raised(0, 400, ""))
         ELSE IF ~TokenExchanged(resp)
         THEN LeavingWrapped(d, "eBay authentication error",
                             Raised(resp.status, 400, "Failed to obtain eBay access token"))
         ELSE IF resp.expires_in = NoKey
         THEN LeavingWrapped(a, "eBay authentication error", "'expires_in'")
         ELSE Leaving(a, 307, "/catalog_ui"))
    /\ UNCHANGED <<catalog, now, environ>>

\* /callback/etsy up to the awaited token request.
callback_etsy(r, state) ==
    /\ Free(r)
    /\ Proceed(r, CallbackBegun("callback_etsy", "etsy_token", state))
    /\ UNCHANGED <<catalog, now, issued, environ>>

EtsyAuthorized(s, resp, t) ==
    [s EXCEPT !.etsy_access_token = resp.access_token,
              !.etsy_refresh_token = Get(resp.refresh_token, None),
              !.etsy_token_expiry =
                  IF resp.expires_in = NoKey THEN @ ELSE t + resp.expires_in]

\* str(e) of the exception httpx raises for a header whose value is None.
HeaderValueError == "Header value must be str or bytes, not <class 'NoneType'>"

\* The token response of /callback/etsy; on success the shop lookup is sent
\* with the access token of the response.  Its x-api-key header is
\* ETSY_CLIENT_ID: when that is None the client raises before it sends
\* anything, with the tokens already in the session.
callback_etsy_token(r, resp) ==
    LET q == req[r]
        d == [q EXCEPT !.calls = Returned(q, TokenResult(resp))]
        a == [d EXCEPT !.session = EtsyAuthorized(q.session, resp, now)]
    IN
    /\ q.pc = "token" /\ q.kind = "callback_etsy"
    /\ resp.status = 200 => issued < MaxIssued
    /\ issued' = Issued(resp)
    /\ Proceed(r,
         IF resp.status = 0
         THEN Wrapped(d, "Etsy authentication error", Raised(0, 400, ""))
         ELSE IF ~TokenExchanged(resp)
         THEN LeavingWrapped(d, "Etsy authentication error",
                             Raised(resp.status, 400, "Failed to obtain Etsy access token"))
         ELSE IF resp.expires_in = NoKey
         THEN LeavingWrapped(a, "Etsy authentication error", "'expires_in'")
         ELSE IF ~environ.ETSY_CLIENT_ID
         THEN LeavingWrapped(a, "Etsy authentication error", HeaderValueError)
         ELSE [a EXCEPT !.pc = "shop", !.access_token = resp.access_token,
                        !.calls = Issue(a, "etsy_shops", resp.access_token, 0)])
    /\ UNCHANGED <<catalog, now, environ>>

\* A response of the shop lookup.  status 0: the client raised.  A 200
\* response may lack shop_id, and it may lack shop_name.
ShopResponses ==
    { [status |-> 0, shop_id |-> NoKey, shop_name |-> NoKey],
      [status |-> 404, shop_id |-> NoKey, shop_name |-> NoKey] }
    \cup { [status |-> 200, shop_id |-> s, shop_name |-> n] :
             s \in ShopIds \cup {NoKey}, n \in ShopNames \cup {NoKey} }

\* The session after the two assignments of the shop lookup: the first
\* raises KeyError without shop_id, the second without shop_name, when the
\* shop id is already written.
EtsyShopStored(s, resp) ==
    IF resp.shop_id = NoKey THEN s
    ELSE IF resp.shop_name = NoKey THEN [s EXCEPT !.etsy_shop_id = resp.shop_id]
    ELSE [s EXCEPT !.etsy_shop_id = resp.shop_id, !.etsy_shop_name = resp.shop_name]

\* The key whose subscription raised KeyError, as str(e) shows it.
ShopKeyError(resp) == IF resp.shop_id = NoKey THEN "'shop_id'" ELSE "'shop_name'"

\* The shop lookup returned.  The block is left with the connection to the
\* token endpoint (api.etsy.com) open, also when the lookup, which goes to
\* another host (openapi.etsy.com), raised.
callback_etsy_shop(r, resp) ==
    LET q == req[r]
        d == [q EXCEPT !.calls = Returned(q, ShopResult(resp))]
    IN
    /\ q.pc = "shop" /\ q.kind = "callback_etsy"
    /\ Proceed(r,
         IF resp.status = 0
         THEN LeavingWrapped(d, "Etsy authentication error", Raised(0, 500, ""))
         ELSE IF resp.status # 200
         THEN Leaving(d, 307, "/catalog_ui")
         ELSE IF ShopResult(resp) = "incomplete"
         THEN LeavingWrapped([d EXCEPT !.session = EtsyShopStored(q.session, resp)],
                             "Etsy authentication error", ShopKeyError(resp))
         ELSE Leaving([d EXCEPT !.session = EtsyShopStored(q.session, resp)],
                      307, "/catalog_ui"))
    /\ UNCHANGED <<catalog, now, issued, environ>>

\* ------------------------------------------------------------- auth
\* The values secrets.token_hex(16) draws for the state parameter.
AuthStates == {1, 2}

\* /auth/ebay: a 500 without the credentials of the environment, else a
\* redirect to the provider whose URL carries a fresh state value.  The
\* handler has no request parameter: it reads and writes no session.
auth_ebay(r, state) ==
    /\ Free(r)
    /\ Proceed(r,
         IF environ.EBAY_CLIENT_ID /\ environ.EBAY_CLIENT_SECRET
            /\ environ.EBAY_REDIRECT_URI
         THEN Respond([Entered("auth_ebay") EXCEPT !.state = state],
                      307, "https://auth.sandbox.ebay.com/oauth2/authorize")
         ELSE Respond(Entered("auth_ebay"), 500, "eBay API credentials not configured"))
    /\ UNCHANGED <<catalog, now, issued, environ>>

\* /auth/etsy
auth_etsy(r, state) ==
    /\ Free(r)
    /\ Proceed(r,
         IF environ.ETSY_CLIENT_ID /\ environ.ETSY_CLIENT_SECRET
            /\ environ.ETSY_REDIRECT_URI
         THEN Respond([Entered("auth_etsy") EXCEPT !.state = state],
                      307, "https://www.etsy.com/oauth/connect")
         ELSE Respond(Entered("auth_etsy"), 500, "Etsy API credentials not configured"))
    /\ UNCHANGED <<catalog, now, issued, environ>>

\* ------------------------------------------------------------- refresh
\* Faulty variant: the refresh stores the refresh token of the response as
\* the callback does, None when the response carries none.
EbayRefreshedWholesale(s, resp, t) ==
    [EbayAuthorized(s, resp, t) EXCEPT !.ebay_access_token = resp.access_token]

\* The session after the assignments of refresh_ebay_token for a 200
\* response: the access token, then the expiry (KeyError without
\* expires_in), then the refresh token when the response carries one.
EbayRefreshed(s, resp, t) ==
    IF resp.expires_in = NoKey
    THEN [s EXCEPT !.ebay_access_token = resp.access_token]
    ELSE [s EXCEPT !.ebay_access_token = resp.access_token,
                   !.ebay_token_expiry = t + resp.expires_in,
                   !.ebay_refresh_token =
                       IF resp.refresh_token = NoKey THEN @ ELSE resp.refresh_token]

\* Faulty variant: the refresh also drops the shop of the session.
EtsyRefreshedShopless(s, resp, t) ==
    IF resp.expires_in = NoKey
    THEN [s EXCEPT !.etsy_access_token = resp.access_token]
    ELSE [s EXCEPT !.etsy_access_token = resp.access_token,
                   !.etsy_token_expiry = t + resp.expires_in,
                   !.etsy_refresh_token =
                       IF resp.refresh_token = NoKey THEN @ ELSE resp.refresh_token,
                   !.etsy_shop_id = NoKey]

EtsyRefreshed(s, resp, t) ==
    IF resp.expires_in = NoKey
    THEN [s EXCEPT !.etsy_access_token = resp.access_token]
    ELSE [s EXCEPT !.etsy_access_token = resp.access_token,
                   !.etsy_token_expiry = t + resp.expires_in,
                   !.etsy_refresh_token =
                       IF resp.refresh_token = NoKey THEN @ ELSE resp.refresh_token]

\* Faulty variant: the publish keeps the token it read before the refresh.
EbayTokenBeforeRefresh(s, old) == old

\* `access_token = request.session.get(...)` after the refresh returned.
EbayTokenAfterRefresh(s, old) == Get(s.ebay_access_token, None)
EtsyTokenAfterRefresh(s, old) == Get(s.etsy_access_token, None)

\* ------------------------------------------------------------- publish_ebay
\* Faulty variant: the inventory call is sent again after it was sent.
EbaySendInventoryTwice(q, token, sku) ==
    [q EXCEPT !.pc = "inventory", !.access_token = token, !.sku = sku,
              !.calls = Append(Issue(q, "ebay_inventory", token, sku),
                               Call("ebay_inventory", token, sku))]

\* The try block of publish_ebay up to the awaited inventory call.
EbaySendInventory(q, token, sku) ==
    [q EXCEPT !.pc = "inventory", !.access_token = token, !.sku = sku,
              !.calls = Issue(q, "ebay_inventory", token, sku)]

\* Faulty variant: a refresh guard.  No refresh request is sent while the
\* refresh request of another invocation is awaited.
EbayRefreshGuarded(s) ==
    Falsy(s.ebay_refresh_token) \/ \E o \in Slots : req[o].pc = "refresh"

\* refresh_ebay_token without a refresh token returns a RedirectResponse,
\* which publish_ebay does not look at.
EbayRefreshSkipped(s) == Falsy(s.ebay_refresh_token)

\* Faulty variant: publish_ebay without its access-token check.
EbayAuthUnchecked(s) == FALSE

\* `if not access_token` of publish_ebay.
EbayNotAuthenticated(s) == Falsy(s.ebay_access_token)

\* /publish/ebay/{item_id} up to its first awaited call or its response.
\* The record of a publish that sends a refresh request notes (raced)
\* whether another eBay publish was awaiting its own at that moment.
publish_ebay(r, item_id) ==
    LET token == Get(session.ebay_access_token, None)
        q == [Entered("publish_ebay") EXCEPT !.item_id = item_id]
        l == [q EXCEPT !.catalog = catalog, !.access_token = token]
    IN
    /\ Free(r)
    /\ UNCHANGED <<catalog, now, issued, environ>>
    /\ IF EbayNotAuthenticated(q.session)
       THEN Proceed(r, Respond(q, 307, "/auth/ebay"))
       ELSE IF ItemNotFound(item_id, catalog)
       THEN Proceed(r, Respond(l, 404, "Item not found"))
       ELSE IF ~InRange(item_id, catalog)
       THEN Proceed(r, Crashed(l))
       ELSE IF Expired(now, q.session.ebay_token_expiry) /\ ~EbayRefreshSkipped(q.session)
       THEN Proceed(r, [l EXCEPT !.pc = "refresh",
                          !.raced = \E o \in Slots : /\ req[o].kind = "publish_ebay"
                                                     /\ req[o].pc = "refresh",
                          !.calls = Issue(l, "ebay_refresh", None,
                                          q.session.ebay_refresh_token)])
       ELSE \E sku \in Skus : Proceed(r, EbaySendInventory(l, token, sku))

\* The token endpoint answers the refresh of an eBay publish: the
\* assignments go to the session of this request.
refresh_ebay_token(r, resp) ==
    LET q == req[r]
        s == EbayRefreshed(q.session, resp, now)
        d == [q EXCEPT !.calls = Returned(q, TokenResult(resp))]
        a == [d EXCEPT !.session = s]
    IN
    /\ q.pc = "refresh" /\ q.kind = "publish_ebay"
    /\ resp.status = 200 => issued < MaxIssued
    /\ issued' = Issued(resp)
    /\ UNCHANGED <<catalog, now, environ>>
    /\ Proceed(r,
         IF resp.status = 0
         THEN Wrapped(d, "eBay token refresh error", Raised(0, 400, ""))
         ELSE IF resp.status # 200
         THEN LeavingWrapped(d, "eBay token refresh error",
                             Raised(resp.status, 400, "Failed to refresh eBay token"))
         ELSE IF resp.expires_in = NoKey
         THEN LeavingWrapped(a, "eBay token refresh error", "'expires_in'")
         ELSE [a EXCEPT !.pc = "refreshed"])

\* The exit of the block of refresh_ebay_token returns and publish_ebay goes
\* on: it reads the access token of its session and sends the inventory
\* call.
ebay_refresh_closed(r) ==
    LET q == req[r] IN
    /\ q.pc = "refreshed" /\ q.kind = "publish_ebay"
    /\ UNCHANGED <<catalog, now, issued, environ>>
    /\ \E sku \in Skus :
           Proceed(r, EbaySendInventory(q, EbayTokenAfterRefresh(q.session, q.access_token),
                                        sku))

\* Faulty variant: the inventory status is not checked.
InventoryUnchecked(status) == TRUE

\* `status_code not in (200, 201, 204)` and `status_code not in (200, 201)`
InventoryOk(status) == status \in {200, 201, 204}
CreatedOk(status) == status \in {200, 201}

ebay_inventory_response(r, status) ==
    LET q == req[r]
        d == [q EXCEPT !.calls = Answered(q, status)]
    IN
    /\ q.pc = "inventory"
    /\ UNCHANGED <<catalog, now, issued, environ>>
    /\ Proceed(r,
         IF status = 0
         THEN Wrapped(d, "eBay publishing error", Raised(0, 500, ""))
         ELSE IF InventoryOk(status)
         THEN [d EXCEPT !.pc = "offer",
                        !.calls = Issue(d, "ebay_offer", q.access_token, q.sku)]
         ELSE LeavingWrapped(d, "eBay publishing error",
                             Raised(status, 500, "Failed to create eBay inventory item")))

\* offer_data.get("offerId") is None when the body has no offerId.
ebay_offer_response(r, status, offerId) ==
    LET q == req[r]
        d == [q EXCEPT !.calls = Answered(q, status)]
    IN
    /\ q.pc = "offer"
    /\ UNCHANGED <<catalog, now, issued, environ>>
    /\ Proceed(r,
         IF status = 0
         THEN Wrapped(d, "eBay publishing error", Raised(0, 500, ""))
         ELSE IF CreatedOk(status)
         THEN [d EXCEPT !.pc = "publish", !.offer_id = offerId,
                        !.calls = Issue(d, "ebay_publish", q.access_token, offerId)]
         ELSE LeavingWrapped(d, "eBay publishing error",
                             Raised(status, 500, "Failed to create eBay offer")))

\* Faulty variant: the flag is set and the listing id is not recorded.
EbayPublishedFlagOnly(item, listing_id) ==
    [item EXCEPT !.published_ebay = TRUE]

\* item["published_ebay"] = True; item["ebay_listing_id"] = listing_id
EbayPublished(item, listing_id) ==
    [item EXCEPT !.published_ebay = TRUE, !.ebay_listing_id = listing_id]

\* The list save_catalog writes: the catalog this handler loaded, with the
\* item it indexed replaced.
Updated(cat, item_id, item) == [cat EXCEPT ![Index(item_id, cat)] = item]

\* Faulty variant: the item is marked and saved whatever the publish status.
EbaySavedUnchecked(cat, q, status, listing_id) ==
    Updated(q.catalog, q.item_id,
            EbayPublished(q.catalog[Index(q.item_id, q.catalog)], listing_id))

\* Faulty variant: an item that catalog.json already shows as published on
\* eBay is not written again.
EbaySavedFirstWins(cat, q, status, listing_id) ==
    IF CreatedOk(status) /\ ~cat[Index(q.item_id, q.catalog)].published_ebay
    THEN Updated(q.catalog, q.item_id,
                 EbayPublished(q.catalog[Index(q.item_id, q.catalog)], listing_id))
    ELSE cat

\* The content of catalog.json after the publish call returned: save_catalog
\* is reached only past the status check.
EbaySaved(cat, q, status, listing_id) ==
    IF CreatedOk(status)
    THEN Updated(q.catalog, q.item_id,
                 EbayPublished(q.catalog[Index(q.item_id, q.catalog)], listing_id))
    ELSE cat

\* The publish call returned.  publish_data.get("listingId") is None when
\* the body has no listingId.  On success the item is marked and
\* save_catalog writes catalog.json inside the block; the handler answers
\* once the block is left.
ebay_publish_response(r, status, listingId) ==
    LET q == req[r]
        d == [q EXCEPT !.calls = Answered(q, status)]
    IN
    /\ q.pc = "publish"
    /\ UNCHANGED <<now, issued, environ>>
    /\ catalog' = EbaySaved(catalog, q, status, listingId)
    /\ Proceed(r,
         IF status = 0
         THEN Wrapped(d, "eBay publishing error", Raised(0, 500, ""))
         ELSE IF CreatedOk(status)
         THEN Leaving([d EXCEPT !.listing_id = listingId], 307, "/catalog_ui")
         ELSE LeavingWrapped(d, "eBay publishing error",
                             Raised(status, 500, "Failed to publish eBay listing")))

\* ------------------------------------------------------------- publish_etsy
EtsySendListing(q, token) ==
    [q EXCEPT !.pc = "listing", !.access_token = token,
              !.calls = Issue(q, "etsy_listing", token, q.shop_id)]

EtsyRefreshSkipped(s) == Falsy(s.etsy_refresh_token)

\* `if not access_token` of publish_etsy.
EtsyNotAuthenticated(s) == Falsy(s.etsy_access_token)

\* /publish/etsy/{item_id} up to its first awaited call or its response.
publish_etsy(r, item_id) ==
    LET token == Get(session.etsy_access_token, None)
        q == [Entered("publish_etsy") EXCEPT !.item_id = item_id]
        l == [q EXCEPT !.catalog = catalog, !.access_token = token,
                       !.shop_id = Get(session.etsy_shop_id, None)]
    IN
    /\ Free(r)
    /\ UNCHANGED <<catalog, now, issued, environ>>
    /\ Proceed(r,
         IF EtsyNotAuthenticated(q.session)
         THEN Respond(q, 307, "/auth/etsy")
         ELSE IF ItemNotFound(item_id, catalog)
         THEN Respond([l EXCEPT !.shop_id = None], 404, "Item not found")
         ELSE IF ~InRange(item_id, catalog)
         THEN Crashed(l)
         ELSE IF Falsy(l.shop_id)
         THEN Respond(l, 400, "Etsy shop not connected")
         ELSE IF Expired(now, q.session.etsy_token_expiry) /\ ~EtsyRefreshSkipped(q.session)
         THEN [l EXCEPT !.pc = "refresh",
                        !.calls = Issue(l, "etsy_refresh", None,
                                        q.session.etsy_refresh_token)]
         ELSE EtsySendListing(l, token))

\* The token endpoint answers the refresh of an Etsy publish.
refresh_etsy_token(r, resp) ==
    LET q == req[r]
        s == EtsyRefreshed(q.session, resp, now)
        d == [q EXCEPT !.calls = Returned(q, TokenResult(resp))]
        a == [d EXCEPT !.session = s]
    IN
    /\ q.pc = "refresh" /\ q.kind = "publish_etsy"
    /\ resp.status = 200 => issued < MaxIssued
    /\ issued' = Issued(resp)
    /\ UNCHANGED <<catalog, now, environ>>
    /\ Proceed(r,
         IF resp.status = 0
         THEN Wrapped(d, "Etsy token refresh error", Raised(0, 400, ""))
         ELSE IF resp.status # 200
         THEN LeavingWrapped(d, "Etsy token refresh error",
                             Raised(resp.status, 400, "Failed to refresh Etsy token"))
         ELSE IF resp.expires_in = NoKey
         THEN LeavingWrapped(a, "Etsy token refresh error", "'expires_in'")
         ELSE [a EXCEPT !.pc = "refreshed"])

\* The exit of the block of refresh_etsy_token returns and publish_etsy goes
\* on: it reads the access token of its session and sends the listing call.
etsy_refresh_closed(r) ==
    LET q == req[r] IN
    /\ q.pc = "refreshed" /\ q.kind = "publish_etsy"
    /\ UNCHANGED <<catalog, now, issued, environ>>
    /\ Proceed(r, EtsySendListing(q, EtsyTokenAfterRefresh(q.session, q.access_token)))

\* The listing call returned.  On success the stored image is opened
\* (opened = FALSE: open raises) and the image upload is sent.
etsy_listing_response(r, status, listing_id, opened) ==
    LET q == req[r]
        d == [q EXCEPT !.calls = Answered(q, status)]
    IN
    /\ q.pc = "listing"
    /\ UNCHANGED <<catalog, now, issued, environ>>
    /\ Proceed(r,
         IF status = 0
         THEN Wrapped(d, "Etsy publishing error", Raised(0, 500, ""))
         ELSE IF ~CreatedOk(status)
         THEN LeavingWrapped(d, "Etsy publishing error",
                             Raised(status, 500, "Failed to create Etsy listing"))
         ELSE IF ~opened
         THEN LeavingWrapped([d EXCEPT !.listing_id = listing_id], "Etsy publishing error",
                             "No such file or directory")
         ELSE [d EXCEPT !.pc = "image", !.listing_id = listing_id,
                        !.calls = Issue(d, "etsy_image", q.access_token, listing_id)])

\* Faulty variant: marking the item for Etsy resets its eBay state.
EtsyPublishedAlone(item, listing_id) ==
    [item EXCEPT !.published_etsy = TRUE, !.etsy_listing_id = Str(listing_id),
                 !.published_ebay = FALSE, !.ebay_listing_id = NoKey]

\* item["published_etsy"] = True; item["etsy_listing_id"] = str(listing_id)
EtsyPublished(item, listing_id) ==
    [item EXCEPT !.published_etsy = TRUE, !.etsy_listing_id = Str(listing_id)]

\* The content of catalog.json after the image upload returned: an
\* exception of the client leaves the try block before save_catalog.
EtsySaved(cat, q, status) ==
    IF status = 0
    THEN cat
    ELSE Updated(q.catalog, q.item_id,
                 EtsyPublished(q.catalog[Index(q.item_id, q.catalog)], q.listing_id))

\* The image upload returned: a status that is not a success is printed
\* only, the item is marked and save_catalog writes catalog.json inside the
\* block, and the handler answers once the block is left; an exception of
\* the client leaves the with block and the try.
etsy_image_response(r, status) ==
    LET q == req[r]
        d == [q EXCEPT !.calls = Answered(q, status)]
    IN
    /\ q.pc = "image"
    /\ UNCHANGED <<now, issued, environ>>
    /\ catalog' = EtsySaved(catalog, q, status)
    /\ Proceed(r,
         IF status = 0
         THEN Wrapped(d, "Etsy publishing error", Raised(0, 500, ""))
         ELSE Leaving(d, 307, "/catalog_ui"))

\* ------------------------------------------------------------- static files
\* GET /static/...: the mounted StaticFiles application looks the file up in
\* a worker thread, so the request is suspended between its entry, when its
\* session is loaded, and its response, when the cookie is set.
static_file(r) ==
    /\ Free(r)
    /\ Proceed(r, [Entered("static") EXCEPT !.pc = "file"])
    /\ UNCHANGED <<catalog, now, issued, environ>>

\* The lookup returned: the file is served, or it does not exist.
static_file_response(r, found) ==
    LET q == req[r] IN
    /\ q.pc = "file" /\ q.kind = "static"
    /\ Proceed(r, IF found THEN Respond(q, 200, "") ELSE Respond(q, 404, "Not Found"))
    /\ UNCHANGED <<catalog, now, issued, environ>>

\* ------------------------------------------------------------- specifications
\* The product form is submitted.
Submit(r) == \E p \in ProductInputs : add_product(r, p[1], p[2])

\* A provider redirects back with an authorization code.  The operator of a
\* session connects one marketplace: a callback enters only while the other
\* provider holds no token.  The callback URL carries no state parameter
\* (`state: Optional[str] = None`); SpecAuth below varies it.
Connect(r) ==
    \/ session.etsy_access_token = NoKey /\ callback_ebay(r, None)
    \/ session.ebay_access_token = NoKey /\ callback_etsy(r, None)

\* A publish link of the catalog page is followed.
Publish(r) ==
    \/ \E i \in ItemIds : publish_ebay(r, i)
    \/ \E i \in ItemIds : publish_etsy(r, i)

\* The read of the upload of a product submission returns, or the close of
\* the upload does.
ResumeSubmit(r) ==
    \/ \E on_disk \in BOOLEAN : add_product_read(r, on_disk)
    \/ upload_closed(r)

\* The awaited call of a callback returns.
ResumeCallback(r) ==
    \/ \E resp \in TokenResponses : callback_ebay_token(r, resp)
    \/ \E resp \in TokenResponses : callback_etsy_token(r, resp)
    \/ \E resp \in ShopResponses : callback_etsy_shop(r, resp)

\* The awaited token refresh of a publish returns, and the publish goes on.
ResumeRefresh(r) ==
    \/ \E resp \in TokenResponses : refresh_ebay_token(r, resp)
    \/ \E resp \in TokenResponses : refresh_etsy_token(r, resp)
    \/ ebay_refresh_closed(r)
    \/ etsy_refresh_closed(r)

\* The client of a handler is closed and the handler answers.
ResumeClosed(r) == client_closed(r)

\* An awaited listing call of a publish returns.
ResumeListing(r) ==
    \/ \E st \in Statuses : ebay_inventory_response(r, st)
    \/ \E st \in CreateStatuses, id \in OfferIds : ebay_offer_response(r, st, id)
    \/ \E st \in CreateStatuses, id \in EbayListingIds : ebay_publish_response(r, st, id)
    \/ \E st \in CreateStatuses, id \in EtsyListingIds, o \in BOOLEAN :
           etsy_listing_response(r, st, id, o)
    \/ \E st \in CreateStatuses : etsy_image_response(r, st)

\* One request at a time: the operator waits for each response before the
\* next request.
Next ==
    \/ Tick
    \/ \E r \in Slots : Quiet /\ Submit(r)
    \/ \E r \in Slots : Quiet /\ Connect(r)
    \/ \E r \in Slots : Quiet /\ Publish(r)
    \/ \E r \in Slots : ResumeSubmit(r)
    \/ \E r \in Slots : ResumeCallback(r)
    \/ \E r \in Slots : ResumeRefresh(r)
    \/ \E r \in Slots : ResumeListing(r)
    \/ \E r \in Slots : ResumeClosed(r)

Spec == Init /\ [][Next]_vars

\* Every awaited provider call returns: with a response, or with an error
\* of the client (httpx gives up after its timeout).
Returns ==
    \E r \in Slots :
        \/ ResumeSubmit(r) \/ ResumeCallback(r) \/ ResumeRefresh(r)
        \/ ResumeListing(r) \/ ResumeClosed(r)

SpecLive == Init /\ [][Next]_vars /\ WF_vars(Returns)

\* The operator fills the catalog, then connects both marketplaces in one
\* session, each while it is not yet connected, and publishes the first
\* item, waiting for each response before the next request; the clock
\* advances between requests.
ConnectBoth(r) ==
    \/ EbayNotAuthenticated(session) /\ callback_ebay(r, None)
    \/ EtsyNotAuthenticated(session) /\ callback_etsy(r, None)

PublishFirst(r) == publish_ebay(r, 0) \/ publish_etsy(r, 0)

NextBoth ==
    \/ Quiet /\ Tick
    \/ \E r \in Slots : Quiet /\ session = EmptySession /\ Submit(r)
    \/ \E r \in Slots : Quiet /\ ConnectBoth(r)
    \/ \E r \in Slots : Quiet /\ PublishFirst(r)
    \/ \E r \in Slots : ResumeSubmit(r)
    \/ \E r \in Slots : ResumeCallback(r)
    \/ \E r \in Slots : ResumeRefresh(r)
    \/ \E r \in Slots : ResumeListing(r)
    \/ \E r \in Slots : ResumeClosed(r)

SpecBoth == Init /\ [][NextBoth]_vars

\* Requests overlap: once eBay is connected, product submissions and eBay
\* publishes of the positions the catalog may hold enter while others await
\* their calls or the read of their upload.  The token endpoint answers
\* no callback with a 200 response that lacks expires_in, and the clock
\* stands still, so that a stored token has an expiry and does not expire:
\* no publish sends a refresh request.
ConcTokenResponses == { resp \in TokenResponses : resp.status = 200 => resp.expires_in # NoKey }

NextConc ==
    \/ \E r \in Slots : Submit(r)
    \/ \E r \in Slots : ResumeSubmit(r)
    \/ \E r \in Slots : Quiet /\ EbayNotAuthenticated(session) /\ callback_ebay(r, None)
    \/ \E r \in Slots : \E i \in 0..(MaxItems - 1) : publish_ebay(r, i)
    \/ \E r \in Slots : \E resp \in ConcTokenResponses : callback_ebay_token(r, resp)
    \/ \E r \in Slots : \E st \in Statuses : ebay_inventory_response(r, st)
    \/ \E r \in Slots : \E st \in CreateStatuses, id \in OfferIds : ebay_offer_response(r, st, id)
    \/ \E r \in Slots : \E st \in CreateStatuses, id \in EbayListingIds :
           ebay_publish_response(r, st, id)
    \/ \E r \in Slots : client_closed(r)

SpecConc == Init /\ [][NextConc]_vars

\* Publishes of the first item and requests of static files overlap in a
\* session connected to eBay, and each publish call that succeeds returns
\* one of two listing ids; an offer call that succeeds returns an offer id.
\* The catalog is filled first and the clock advances between requests.
RaceListingIds == {Str(1), Str(2)}
RaceOfferIds == OfferIds \ {None}

NextRace ==
    \/ Quiet /\ Tick
    \/ \E r \in Slots : Quiet /\ session = EmptySession /\ Submit(r)
    \/ \E r \in Slots : ResumeSubmit(r)
    \/ \E r \in Slots : Quiet /\ EbayNotAuthenticated(session) /\ callback_ebay(r, None)
    \/ \E r \in Slots : publish_ebay(r, 0)
    \/ \E r \in Slots : \E resp \in TokenResponses : callback_ebay_token(r, resp)
    \/ \E r \in Slots : \E resp \in TokenResponses : refresh_ebay_token(r, resp)
    \/ \E r \in Slots : \E st \in Statuses : ebay_inventory_response(r, st)
    \/ \E r \in Slots : \E st \in CreateStatuses, id \in RaceOfferIds :
           ebay_offer_response(r, st, id)
    \/ \E r \in Slots : \E st \in CreateStatuses, id \in RaceListingIds :
           ebay_publish_response(r, st, id)
    \/ \E r \in Slots : ebay_refresh_closed(r)
    \/ \E r \in Slots : client_closed(r)
    \/ \E r \in Slots : static_file(r)
    \/ \E r \in Slots : \E found \in BOOLEAN : static_file_response(r, found)

SpecRace == Init /\ [][NextRace]_vars

\* The OAuth flows alone, in any deployment: the operator starts an
\* authorization, and a callback arrives with any state value or none,
\* whether or not it is the one the authorization handed out.
ReturnedStates == AuthStates \cup {None}

NextAuth ==
    \/ \E r \in Slots : \E st \in AuthStates : auth_ebay(r, st)
    \/ \E r \in Slots : \E st \in AuthStates : auth_etsy(r, st)
    \/ \E r \in Slots : \E st \in ReturnedStates : Quiet /\ callback_ebay(r, st)
    \/ \E r \in Slots : \E st \in ReturnedStates : Quiet /\ callback_etsy(r, st)
    \/ \E r \in Slots : ResumeCallback(r)
    \/ \E r \in Slots : ResumeClosed(r)

SpecAuth == InitAuth /\ [][NextAuth]_vars

\* ------------------------------------------------------------- main-app.py
\* src/main-app.py defines calculate_profit_margin without the test of the
\* price: the division raises ZeroDivisionError for price = 0.
calculate_profit_margin_app(price, cost) ==
    IF price = 0
    THEN [raised |-> TRUE, value |-> 0]
    ELSE IF price > 0
    THEN [raised |-> FALSE, value |-> Round2(price - cost, price)]
    ELSE [raised |-> FALSE, value |-> Round2(cost - price, 0 - price)]

\* /add_product of src/main-app.py up to `await image.read()`.
add_product_app(r, price, cost) ==
    /\ Free(r)
    /\ Len(catalog) + Cardinality(Reading) < MaxItems
    /\ Proceed(r, [Entered("add_product_app") EXCEPT !.pc = "read",
                                                     !.price = price, !.cost = cost])
    /\ UNCHANGED <<catalog, now, issued, environ>>

\* The upload is read.  The handler of src/main-app.py has no try block:
\* an exception of calculate_profit_margin leaves it before load_catalog.
\* Either way the upload is closed before the response starts, in the
\* thread pool when it is on disk.
add_product_app_read(r, on_disk) ==
    LET q == req[r]
        m == calculate_profit_margin_app(q.price, q.cost)
        d == IF m.raised
             THEN [q EXCEPT !.session = EmptySession,
                            !.status = 500, !.detail = "Internal Server Error"]
             ELSE [q EXCEPT !.status = 303, !.detail = "/catalog_ui"]
    IN
    /\ q.pc = "read" /\ q.kind = "add_product_app"
    /\ catalog' = IF m.raised
                  THEN catalog
                  ELSE Append(catalog, [NewProduct(q.price, q.cost) EXCEPT
                                          !.predicted_profit_margin = m.value])
    /\ Proceed(r, IF on_disk
                  THEN [d EXCEPT !.pc = "upload"]
                  ELSE IF m.raised THEN Crashed(q) ELSE Respond(q, 303, "/catalog_ui"))
    /\ UNCHANGED <<now, issued, environ>>

\* Prices and costs the product form may carry: any float, zero and
\* negative ones included.  At 160 and 67 the exact margin, 58.125, is
\* halfway between two hundredths.
Prices == {-10, 0, 3, 20, 160}
Costs == {0, 1, 12, 25, 67}

\* Product submissions to either application file, over all form values.
NextMargin ==
    \/ \E r \in Slots : \E price \in Prices, cost \in Costs : add_product(r, price, cost)
    \/ \E r \in Slots : \E price \in Prices, cost \in Costs : add_product_app(r, price, cost)
    \/ \E r \in Slots : \E on_disk \in BOOLEAN : add_product_read(r, on_disk)
    \/ \E r \in Slots : \E on_disk \in BOOLEAN : add_product_app_read(r, on_disk)
    \/ \E r \in Slots : upload_closed(r)

SpecMargin == Init /\ [][NextMargin]_vars

\* /publish/etsy/{item_id} of src/main-app.py up to its first awaited call
\* or its response: the handler reads the shop id and does not test it.
\* The code after the first await is that of src/main.py.
publish_etsy_app(r, item_id) ==
    LET token == Get(session.etsy_access_token, None)
        q == [Entered("publish_etsy") EXCEPT !.item_id = item_id]
        l == [q EXCEPT !.catalog = catalog, !.access_token = token,
                       !.shop_id = Get(session.etsy_shop_id, None)]
    IN
    /\ Free(r)
    /\ UNCHANGED <<catalog, now, issued, environ>>
    /\ Proceed(r,
         IF EtsyNotAuthenticated(q.session)
         THEN Respond(q, 307, "/auth/etsy")
         ELSE IF ItemNotFound(item_id, catalog)
         THEN Respond([l EXCEPT !.shop_id = None], 404, "Item not found")
         ELSE IF ~InRange(item_id, catalog)
         THEN Crashed(l)
         ELSE IF Expired(now, q.session.etsy_token_expiry) /\ ~EtsyRefreshSkipped(q.session)
         THEN [l EXCEPT !.pc = "refresh",
                        !.calls = Issue(l, "etsy_refresh", None,
                                        q.session.etsy_refresh_token)]
         ELSE EtsySendListing(l, token))

\* Etsy publishes through either application file, one request at a time,
\* in a session connected to Etsy.
NextApp ==
    \/ Tick
    \/ \E r \in Slots : Quiet /\ Submit(r)
    \/ \E r \in Slots : ResumeSubmit(r)
    \/ \E r \in Slots : Quiet /\ callback_etsy(r, None)
    \/ \E r \in Slots : \E i \in ItemIds : Quiet /\ publish_etsy(r, i)
    \/ \E r \in Slots : \E i \in ItemIds : Quiet /\ publish_etsy_app(r, i)
    \/ \E r \in Slots : \E resp \in TokenResponses : callback_etsy_token(r, resp)
    \/ \E r \in Slots : \E resp \in ShopResponses : callback_etsy_shop(r, resp)
    \/ \E r \in Slots : \E resp \in TokenResponses : refresh_etsy_token(r, resp)
    \/ \E r \in Slots : \E st \in CreateStatuses, id \in EtsyListingIds, o \in BOOLEAN :
           etsy_listing_response(r, st, id, o)
    \/ \E r \in Slots : \E st \in CreateStatuses : etsy_image_response(r, st)
    \/ \E r \in Slots : etsy_refresh_closed(r)
    \/ \E r \in Slots : client_closed(r)

SpecApp == Init /\ [][NextApp]_vars

\* ------------------------------------------------------------- claims
\* A listing id is present: the key exists and its value is not null.
Present(v) == v \notin {NoKey, None}
IsPublish(q) == q.kind \in {"publish_ebay", "publish_etsy"}
ErrorStatus(q) == q.status \in {400, 404, 500}
\* In this step a request enters slot r, or the handler in slot r responds.
Enters(r) == ~InFlight(req[r]) /\ req'[r] # req[r]
Completes(r) == req'[r].pc = "done" /\ req'[r] # req[r]
\* The handler q has left its try block: it is bound for its response while
\* its client is closed, or it has responded.
Ended(q) == q.pc \in {"close", "done"}
\* In this step the last call of the publish in slot r returns and the
\* handler leaves its client block for the redirect to the catalog page.
Saves(r) ==
    /\ IsPublish(req'[r]) /\ req[r].pc \in {"publish", "image"}
    /\ req'[r].pc = "close" /\ req'[r].status = 307
\* The calls of q to an API, and whether one before the k-th returned success.
CallsOf(q, api) == {k \in 1..Len(q.calls) : q.calls[k].api = api}
OkBefore(q, api, k) ==
    \E j \in 1..(k - 1) : q.calls[j].api = api /\ q.calls[j].result = "ok"
HasOk(q, api) == OkBefore(q, api, Len(q.calls) + 1)
\* request.session of the handler in slot r; the cookie when none runs there.
Held(r) == IF InFlight(req[r]) THEN req[r].session ELSE session

\* C1: in every persisted catalog, for every item and both providers, the
\* published flag is true exactly when the provider's listing id is present
\* (not null), also after a successful publish whose final response carries
\* no listing identifier.
C1_PublishedIffListingId ==
    \A i \in 1..Len(catalog) :
        /\ catalog[i].published_ebay <=> Present(catalog[i].ebay_listing_id)
        /\ catalog[i].published_etsy <=> Present(catalog[i].etsy_listing_id)

\* C2: a publish invocation that runs alone and ends in an error outcome
\* leaves catalog.json as it was when the invocation loaded it: the step in
\* which the error arises and the step that responds with it change
\* nothing, and the catalog they leave is the one the handler had loaded.
C2_FailedPublishKeepsCatalog ==
    [][\A r \in Slots :
         (req'[r] # req[r] /\ IsPublish(req'[r]) /\ Ended(req'[r])
            /\ ErrorStatus(req'[r]))
         => /\ catalog' = catalog
            /\ InFlight(req[r]) => catalog' = req[r].catalog]_vars

\* C2 witness: an eBay publish has answered 500 after its publish-offer call
\* returned a failure status, with a product in the catalog.
C2_Witness ==
    \E r \in Slots :
        /\ req[r].kind = "publish_ebay" /\ req[r].pc = "done" /\ req[r].status = 500
        /\ \E k \in CallsOf(req[r], "ebay_publish") : req[r].calls[k].result = "fail"
        /\ Len(catalog) >= 1 /\ ~catalog[1].published_ebay

\* The three calls of an eBay publish in the order of the protocol.
C3_Ordered(q) ==
    /\ \A k \in CallsOf(q, "ebay_offer") : OkBefore(q, "ebay_inventory", k)
    /\ \A k \in CallsOf(q, "ebay_publish") : OkBefore(q, "ebay_offer", k)
    /\ \A k \in CallsOf(q, "ebay_inventory") \cup CallsOf(q, "ebay_offer") :
          q.calls[k].result \in {"fail", "raise"}
          => /\ k = Len(q.calls)
             /\ Ended(q) /\ q.status = 500 /\ q.listing_id = None
C3_AllThreeOk(q) ==
    HasOk(q, "ebay_inventory") /\ HasOk(q, "ebay_offer") /\ HasOk(q, "ebay_publish")
\* The eBay publish state of an item is not what the step found.
C3_EbayStateSet(i) ==
    IF i <= Len(catalog)
    THEN \/ catalog'[i].published_ebay # catalog[i].published_ebay
         \/ catalog'[i].ebay_listing_id # catalog[i].ebay_listing_id
    ELSE catalog'[i].published_ebay

\* C3: within an eBay publish the offer call is issued only after the
\* inventory call returned success and the publish-offer call only after the
\* offer call returned success; a failed call is the last one and no listing
\* id is obtained; the published_ebay flag and listing id of an item are
\* written only by the step that receives the answer of the publish-offer
\* call, in an invocation all three of whose calls returned success.
C3_EbaySequence ==
    /\ [](\A r \in Slots :
             req[r].kind = "publish_ebay"
             => /\ C3_Ordered(req[r])
                /\ (Ended(req[r]) /\ req[r].status = 307
                      /\ req[r].detail = "/catalog_ui") => C3_AllThreeOk(req[r]))
    /\ [][\A i \in 1..Len(catalog') :
            C3_EbayStateSet(i)
            => \E r \in Slots :
                  /\ req[r].pc = "publish" /\ Saves(r)
                  /\ C3_AllThreeOk(req'[r])]_vars

\* C3 witness: an eBay publish whose inventory call succeeded and whose offer
\* call failed has answered 500 after these two calls.
C3_Witness ==
    \E r \in Slots :
        LET q == req[r] IN
        /\ q.kind = "publish_ebay" /\ q.pc = "done" /\ q.status = 500
        /\ HasOk(q, "ebay_inventory")
        /\ q.calls[Len(q.calls)].api = "ebay_offer"
        /\ q.calls[Len(q.calls)].result = "fail"
        /\ Len(catalog) >= 1 /\ ~catalog[1].published_ebay

\* The image step of an Etsy publish failed: the stored image could not be
\* opened (no upload was sent), or the upload returned a failure status or
\* raised.
C4_ImageFailed(q) ==
    \/ CallsOf(q, "etsy_image") = {}
    \/ \E k \in CallsOf(q, "etsy_image") : q.calls[k].result \in {"fail", "raise"}

\* C4: an Etsy publish whose listing creation returned success ends
\* successfully, with the item marked published_etsy and etsy_listing_id the
\* id step 1 returned, whenever the image step fails, by a failure status or
\* by an error raised while opening or sending the image.
C4_EtsyImageBestEffort ==
    \A r \in Slots :
        LET q == req[r] IN
        (q.kind = "publish_etsy" /\ q.pc = "done" /\ HasOk(q, "etsy_listing")
           /\ C4_ImageFailed(q))
        => /\ q.status = 307 /\ q.detail = "/catalog_ui"
           /\ InRange(q.item_id, catalog)
           /\ catalog[Index(q.item_id, catalog)].published_etsy
           /\ catalog[Index(q.item_id, catalog)].etsy_listing_id = Str(q.listing_id)

\* C5: a publish that finds the token expired while the session holds no
\* refresh token ends at once in an error outcome, issues no listing call
\* and leaves the catalog unchanged.
C5_ExpiredWithoutRefreshTokenFails ==
    [][\A r \in Slots :
         /\ (Enters(r) /\ req'[r].kind = "publish_ebay"
               /\ ~EbayNotAuthenticated(session)
               /\ ~ItemNotFound(req'[r].item_id, catalog)
               /\ InRange(req'[r].item_id, catalog)
               /\ session.ebay_token_expiry # NoKey
               /\ Expired(now, session.ebay_token_expiry)
               /\ Falsy(session.ebay_refresh_token))
            => /\ req'[r].pc = "done" /\ ErrorStatus(req'[r])
               /\ req'[r].calls = <<>> /\ catalog' = catalog
         /\ (Enters(r) /\ req'[r].kind = "publish_etsy"
               /\ ~EtsyNotAuthenticated(session)
               /\ ~ItemNotFound(req'[r].item_id, catalog)
               /\ InRange(req'[r].item_id, catalog)
               /\ ~Falsy(session.etsy_shop_id)
               /\ session.etsy_token_expiry # NoKey
               /\ Expired(now, session.etsy_token_expiry)
               /\ Falsy(session.etsy_refresh_token))
            => /\ req'[r].pc = "done" /\ ErrorStatus(req'[r])
               /\ req'[r].calls = <<>> /\ catalog' = catalog]_vars

\* The access token and the expiry the session stores for the provider of q.
StoredToken(s, q) ==
    IF q.kind = "publish_ebay" THEN s.ebay_access_token ELSE s.etsy_access_token
StoredExpiry(s, q) ==
    IF q.kind = "publish_ebay" THEN s.ebay_token_expiry ELSE s.etsy_token_expiry
ListingApis == {"ebay_inventory", "ebay_offer", "ebay_publish", "etsy_listing", "etsy_image"}
RefreshApis == {"ebay_refresh", "etsy_refresh"}
Refreshed(q) ==
    /\ IsPublish(q) /\ Len(q.calls) >= 1
    /\ q.calls[1].api \in RefreshApis /\ q.calls[1].result = "ok"

\* C6: when the token endpoint accepts the refresh of a publish, the step
\* that receives the answer replaces the access token of the request's
\* session by the new one and sets the expiry later than now, before any
\* listing call; the next step of the invocation sends the first listing
\* call with the new token; every listing call of the invocation carries
\* the new token, and the response of the invocation stores it in the
\* cookie.
C6_RefreshedTokenIsUsed ==
    /\ [][\A r \in Slots :
            (req[r].pc = "refresh" /\ Refreshed(req'[r]))
            => LET q == req'[r]
                   new == StoredToken(q.session, q)
               IN /\ Present(new) /\ new # StoredToken(req[r].session, q)
                  /\ new # req[r].access_token
                  /\ StoredExpiry(q.session, q) > now'
                  /\ q.pc = "refreshed" /\ Len(q.calls) = 1]_vars
    /\ [][\A r \in Slots :
            (req[r].pc = "refreshed" /\ req'[r] # req[r])
            => LET q == req'[r] IN
               /\ q.session = req[r].session
               /\ Len(q.calls) = 2
               /\ q.calls[2].api \in {"ebay_inventory", "etsy_listing"}
               /\ q.calls[2].token = StoredToken(q.session, q)
               /\ q.calls[2].token # req[r].access_token]_vars
    /\ [](\A r \in Slots :
            Refreshed(req[r])
            => \A k \in 2..Len(req[r].calls) :
                  /\ req[r].calls[k].api \in ListingApis
                  /\ req[r].calls[k].token = req[r].calls[2].token
                  /\ InFlight(req[r])
                     => req[r].calls[k].token = StoredToken(req[r].session, req[r]))
    /\ [][\A r \in Slots :
            (Completes(r) /\ Refreshed(req'[r]))
            => StoredToken(session', req'[r]) = req'[r].calls[2].token]_vars

\* C6 witness: an eBay publish that refreshed its token awaits the offer
\* call, having sent the inventory call and the offer call.
C6_Witness ==
    \E r \in Slots :
        /\ Refreshed(req[r]) /\ req[r].kind = "publish_ebay"
        /\ req[r].pc = "offer" /\ Len(req[r].calls) = 3
        /\ req[r].calls[3].token = req[r].session.ebay_access_token
        /\ req[r].calls[3].token # session.ebay_access_token

\* The invocation q ended successfully, and the catalog records its item as
\* published on eBay with the listing id it obtained.
SuccessfulEbayPublish(q) ==
    /\ q.kind = "publish_ebay" /\ q.pc = "done"
    /\ q.status = 307 /\ q.detail = "/catalog_ui"
RecordedEbay(cat, q) ==
    /\ InRange(q.item_id, cat)
    /\ cat[Index(q.item_id, cat)].published_ebay
    /\ cat[Index(q.item_id, cat)].ebay_listing_id = q.listing_id

\* C7: when two overlapping publish invocations for different items both end
\* successfully, the catalog persisted by the later one records both items
\* as published with their listing ids.
C7_DifferentItemsBothRecorded ==
    [][\A r1, r2 \in Slots :
         (/\ r1 # r2
          /\ InFlight(req[r2]) /\ SuccessfulEbayPublish(req'[r2])
          /\ SuccessfulEbayPublish(req[r1]) /\ req'[r1] = req[r1]
          /\ req[r1].item_id >= 0 /\ req[r2].item_id >= 0
          /\ req[r1].item_id # req[r2].item_id)
         => RecordedEbay(catalog', req[r1]) /\ RecordedEbay(catalog', req'[r2])]_vars

\* C8: no step shortens catalog.json or replaces the product at a position.
C8_ItemsNeverDeleted ==
    [][/\ Len(catalog') >= Len(catalog)
       /\ \A i \in 1..Len(catalog) :
             /\ catalog'[i].price = catalog[i].price
             /\ catalog'[i].cost = catalog[i].cost]_vars

\* The provider of the publish q holds an access token.
Authenticated(s, q) ==
    IF q.kind = "publish_ebay" THEN ~EbayNotAuthenticated(s) ELSE ~EtsyNotAuthenticated(s)

\* C9: for an authenticated session, a publish of an item id outside
\* 0..len(catalog)-1, negative ids included, answers ItemNotFound (404) at
\* once, without a refresh, a provider call or a change of the catalog.
C9_OutOfRangeIsNotFound ==
    [][\A r \in Slots :
         (Enters(r) /\ IsPublish(req'[r]) /\ Authenticated(session, req'[r])
            /\ req'[r].item_id \notin 0..(Len(catalog) - 1))
         => /\ req'[r].pc = "done" /\ req'[r].status = 404
            /\ req'[r].calls = <<>>
            /\ session' = session /\ catalog' = catalog]_vars

\* C10: without a stored access token a publish answers with the redirect to
\* the provider's authorization route, for every item id, and it makes no
\* call and changes neither the session nor the catalog.
C10_NotAuthenticatedRedirects ==
    [][\A r \in Slots :
         (Enters(r) /\ IsPublish(req'[r]) /\ Falsy(StoredToken(session, req'[r])))
         => /\ req'[r].pc = "done" /\ req'[r].status = 307
            /\ req'[r].detail =
                 (IF req'[r].kind = "publish_ebay" THEN "/auth/ebay" ELSE "/auth/etsy")
            /\ req'[r].calls = <<>>
            /\ session' = session /\ catalog' = catalog]_vars

\* C10 witness: an Etsy publish of an item id that is not in the catalog has
\* answered with the redirect to /auth/etsy, while eBay is connected.
C10_Witness ==
    \E r \in Slots :
        /\ req[r].kind = "publish_etsy" /\ req[r].pc = "done"
        /\ req[r].status = 307 /\ req[r].detail = "/auth/etsy"
        /\ req[r].item_id >= Len(catalog)
        /\ session.etsy_access_token = NoKey /\ session.ebay_access_token # NoKey

IsCallback(q) == q.kind \in {"callback_ebay", "callback_etsy"}
\* The callback q has ended successfully (redirect to the catalog page).
Authorized(q) ==
    IsCallback(q) /\ q.pc = "done" /\ q.status = 307 /\ q.detail = "/catalog_ui"

\* C11: after a successful callback every stored field of the provider comes
\* from the responses of this call: the access token is the one just issued,
\* the refresh token is the one issued with it or none, the expiry was set
\* from this response, and for Etsy the shop id and shop name are stored
\* exactly when this call's shop lookup returned them; nothing from an
\* earlier authorization survives.
C11_AuthorizeReplacesSession ==
    [][\A r \in Slots :
         (Completes(r) /\ Authorized(req'[r]))
         => IF req'[r].kind = "callback_ebay"
            THEN /\ session'.ebay_access_token = issued'
                 /\ session'.ebay_refresh_token \in {None, issued'}
                 /\ \E e \in ExpiresIn, t \in 1..now' : session'.ebay_token_expiry = t + e
            ELSE /\ session'.etsy_access_token = issued'
                 /\ session'.etsy_refresh_token \in {None, issued'}
                 /\ \E e \in ExpiresIn, t \in 1..now' : session'.etsy_token_expiry = t + e
                 /\ IF req'[r].calls[2].result = "ok"
                    THEN /\ session'.etsy_shop_id \in ShopIds
                         /\ session'.etsy_shop_name \in ShopNames
                    ELSE /\ session'.etsy_shop_id = NoKey
                         /\ session'.etsy_shop_name = NoKey]_vars

\* C12: when the token endpoint answers a callback with a non-200 status,
\* the callback leaves its try block for an error outcome in that step and
\* answers with it in its next step; in both steps the session, of the
\* request and in the cookie, is exactly what it was (an empty one stays
\* empty, a stored one is not altered), and no shop lookup is issued.
C12_TokenExchangeFailureKeepsSession ==
    /\ [][\A r \in Slots :
            (req[r].pc = "token" /\ IsCallback(req[r])
               /\ req'[r].calls[1].result = "fail")
            => /\ req'[r].pc = "close" /\ ErrorStatus(req'[r])
               /\ session' = session /\ req'[r].session = req[r].session
               /\ Len(req'[r].calls) = 1
               /\ CallsOf(req'[r], "etsy_shops") = {}]_vars
    /\ [][\A r \in Slots :
            (req[r].pc = "close" /\ IsCallback(req[r]) /\ req'[r] # req[r]
               /\ req[r].calls[1].result = "fail")
            => /\ req'[r].pc = "done" /\ ErrorStatus(req'[r])
               /\ session' = session
               /\ req'[r].calls = req[r].calls]_vars

\* C12 witness: an Etsy callback has failed at the token endpoint while the
\* session holds the tokens and the shop id of an earlier authorization.
C12_Witness ==
    \E r \in Slots :
        /\ req[r].kind = "callback_etsy" /\ req[r].pc = "done" /\ req[r].status = 500
        /\ req[r].calls[1].result = "fail"
        /\ Present(session.etsy_access_token) /\ Present(session.etsy_shop_id)

\* The shop lookup of the Etsy callback q failed: by a non-200 status, by a
\* 200 body without shop_id or shop_name, or by an error of the client.
C13_ShopLookupFailed(q) ==
    /\ q.kind = "callback_etsy" /\ Len(q.calls) = 2
    /\ q.calls[1].result = "ok"
    /\ q.calls[2].api = "etsy_shops"
    /\ q.calls[2].result \in {"fail", "incomplete", "raise"}

\* C13: an Etsy callback whose token exchange succeeded and whose shop
\* lookup failed, in any of the three ways, still ends successfully, with the
\* access token, the refresh token and the expiry of this exchange stored.
C13_ShopLookupFailureNonFatal ==
    [][\A r \in Slots :
         (req[r].pc = "close" /\ Completes(r) /\ C13_ShopLookupFailed(req'[r]))
         => /\ Authorized(req'[r])
            /\ session'.etsy_access_token = req[r].access_token
            /\ session'.etsy_refresh_token # NoKey
            /\ Present(session'.etsy_token_expiry)]_vars

\* The Etsy callback q has ended successfully, its shop lookup having
\* returned no shop id.
C14_EndedWithoutShop(q) ==
    /\ Authorized(q) /\ C13_ShopLookupFailed(q)

\* C14: the Etsy publish that follows a successful Etsy callback whose shop
\* lookup failed ends at once in an error outcome without a listing call, so it
\* marks no item published_etsy.
C14_NoPublishWithoutShop ==
    [][\A r \in Slots :
         (Enters(r) /\ req'[r].kind = "publish_etsy" /\ C14_EndedWithoutShop(req[r]))
         => /\ req'[r].pc = "done"
            /\ req'[r].status \in {307, 400, 404, 500}
            /\ req'[r].status = 307 => req'[r].detail = "/auth/etsy"
            /\ req'[r].calls = <<>>
            /\ catalog' = catalog]_vars

\* The publish q has ended after the token endpoint rejected its refresh.
C15_RefreshRejected(q) ==
    /\ IsPublish(q) /\ q.pc = "done" /\ Len(q.calls) = 1
    /\ q.calls[1].api \in RefreshApis /\ q.calls[1].result = "fail"

\* C15: the publish for the same provider that follows a publish whose
\* refresh was rejected answers with the redirect to the provider's
\* authorization route, without a refresh request or a provider call.
C15_RefreshFailureUnauthenticates ==
    [][\A r \in Slots :
         (Enters(r) /\ C15_RefreshRejected(req[r]) /\ req'[r].kind = req[r].kind)
         => /\ req'[r].pc = "done" /\ req'[r].status = 307
            /\ req'[r].detail =
                 (IF req'[r].kind = "publish_ebay" THEN "/auth/ebay" ELSE "/auth/etsy")
            /\ req'[r].calls = <<>>]_vars

\* No callback is awaiting a call: the step is not one of an authorization.
C16_NoCallbackRunning == \A r \in Slots : ~(InFlight(req[r]) /\ IsCallback(req[r]))

\* C16: a session that holds a refresh token holds an access token, and no
\* step of a publish, of a refresh (accepted with or without a new refresh
\* token, or rejected), of the clock or of a product submission removes the
\* refresh token, from the session of the request or from the cookie; no
\* publish entering such a session answers with the redirect to the
\* authorization route.
C16_RefreshTokenIsKept ==
    /\ [](\A r \in Slots :
            /\ Present(Held(r).ebay_refresh_token) => Present(Held(r).ebay_access_token)
            /\ Present(Held(r).etsy_refresh_token) => Present(Held(r).etsy_access_token))
    /\ [][C16_NoCallbackRunning
          => \A r \in Slots :
             /\ Present(Held(r).ebay_refresh_token)
                => /\ Present(Held(r)'.ebay_refresh_token)
                   /\ Present(session.ebay_refresh_token)
                      => Present(session'.ebay_refresh_token)
                   /\ (Enters(r) /\ req'[r].kind = "publish_ebay")
                      => ~(req'[r].status = 307 /\ req'[r].detail = "/auth/ebay")
             /\ Present(Held(r).etsy_refresh_token)
                => /\ Present(Held(r)'.etsy_refresh_token)
                   /\ Present(session.etsy_refresh_token)
                      => Present(session'.etsy_refresh_token)
                   /\ (Enters(r) /\ req'[r].kind = "publish_etsy")
                      => ~(req'[r].status = 307 /\ req'[r].detail = "/auth/etsy")]_vars

\* C16 witness: an eBay publish whose refresh was accepted with a response
\* that carried no refresh token has sent its inventory call; its session
\* holds the new access token and the refresh token of the authorization.
C16_Witness ==
    \E r \in Slots :
        /\ Refreshed(req[r]) /\ req[r].kind = "publish_ebay" /\ Len(req[r].calls) >= 2
        /\ InFlight(req[r])
        /\ Present(req[r].session.ebay_refresh_token)
        /\ req[r].session.ebay_refresh_token < req[r].session.ebay_access_token
        /\ req[r].calls[1].arg = req[r].session.ebay_refresh_token

\* The publish q has ended successfully.
Succeeded(q) ==
    IsPublish(q) /\ q.pc = "done" /\ q.status = 307 /\ q.detail = "/catalog_ui"

\* The published flag and the listing id of an item for the provider of q;
\* the id as the handler of q stores it: eBay the listingId as returned,
\* Etsy the string str(listing_id).
PublishedBy(item, q) ==
    IF q.kind = "publish_ebay" THEN item.published_ebay ELSE item.published_etsy
ListingIdBy(item, q) ==
    IF q.kind = "publish_ebay" THEN item.ebay_listing_id ELSE item.etsy_listing_id
StoredForm(q) ==
    IF q.kind = "publish_ebay" THEN q.listing_id ELSE Str(q.listing_id)

\* C17: the step in which the last call of a publish that ran alone returns
\* writes catalog.json once: the item it indexed has the provider's
\* published flag set and as listing id the identifier the
\* listing-producing call returned (for Etsy its string form); everything
\* else in the catalog is as before.  No other step changes a published
\* flag or a listing id, and the publish answers with the redirect to the
\* catalog page in its next step.
C17_SuccessfulPublishRecordsListing ==
    /\ [][\A r \in Slots :
            Saves(r)
            => LET q == req'[r]
                   k == Index(q.item_id, catalog)
                   api == IF q.kind = "publish_ebay" THEN "ebay_publish" ELSE "etsy_listing"
               IN /\ InRange(q.item_id, catalog) /\ Len(catalog') = Len(catalog)
                  /\ HasOk(q, api)
                  /\ PublishedBy(catalog'[k], q)
                  /\ ListingIdBy(catalog'[k], q) = StoredForm(q)
                  /\ \A i \in 1..Len(catalog) : i # k => catalog'[i] = catalog[i]
                  /\ catalog' = Updated(catalog, q.item_id,
                        IF q.kind = "publish_ebay"
                        THEN [catalog[k] EXCEPT !.published_ebay = TRUE,
                                                !.ebay_listing_id = StoredForm(q)]
                        ELSE [catalog[k] EXCEPT !.published_etsy = TRUE,
                                                !.etsy_listing_id = StoredForm(q)])]_vars
    /\ [][\A i \in 1..Len(catalog) :
            (i <= Len(catalog') /\ catalog'[i] # catalog[i])
            => \E r \in Slots : Saves(r)]_vars
    /\ [][\A r \in Slots :
            (InFlight(req[r]) /\ Succeeded(req'[r]))
            => /\ req[r].pc = "close" /\ catalog' = catalog
               /\ req'[r].listing_id = req[r].listing_id
               /\ InRange(req'[r].item_id, catalog)
               /\ ListingIdBy(catalog[Index(req'[r].item_id, catalog)], req'[r])
                     = StoredForm(req'[r])]_vars

\* C17 witness: an Etsy publish has ended successfully with the listing id 1
\* of its listing call, and the item is published with the id "1".
C17_Witness ==
    \E r \in Slots :
        /\ Succeeded(req[r]) /\ req[r].kind = "publish_etsy" /\ req[r].listing_id = 1
        /\ InRange(req[r].item_id, catalog)
        /\ catalog[Index(req[r].item_id, catalog)].published_etsy
        /\ catalog[Index(req[r].item_id, catalog)].etsy_listing_id = Str(1)

\* The publish q ended in an error after a listing call returned a failure
\* status, the last call it made.
C18_ListingCallRejected(q) ==
    /\ IsPublish(q) /\ q.pc = "done" /\ ErrorStatus(q) /\ Len(q.calls) >= 1
    /\ q.calls[Len(q.calls)].api \in ListingApis
    /\ q.calls[Len(q.calls)].result = "fail"

\* C18: the error response of a publish whose listing call returned a
\* failure status carries the diagnostic message of that provider response,
\* as its detail or as the exception text appended to it.
C18_ErrorCarriesDiagnostic ==
    \A r \in Slots :
        C18_ListingCallRejected(req[r])
        => LET text == req[r].calls[Len(req[r].calls)].text
           IN /\ text # ""
              /\ req[r].detail = text \/ req[r].cause = text

\* m (in hundredths of a percent) is (price - cost) / price * 100 rounded to
\* two decimals, for price > 0: no hundredth is nearer to the quotient.
C19_IsRounded(m, price, cost) ==
    LET d == m * price - 10000 * (price - cost)
    IN 2 * (IF d >= 0 THEN d ELSE 0 - d) <= price

\* C19: every product submission is answered without an error, for prices
\* <= 0 as well, and the margin stored with an item is 0.0 when its price is
\* <= 0 and else (price - cost) / price * 100 rounded to two decimals; price
\* 20 and cost 12 give 40.0.
C19_ProfitMargin ==
    /\ \A r \in Slots :
          (req[r].kind \in {"add_product", "add_product_app"} /\ req[r].pc = "done")
          => req[r].status = 303
    /\ \A i \in 1..Len(catalog) :
          LET it == catalog[i] IN
          /\ it.price <= 0 => it.predicted_profit_margin = 0
          /\ it.price > 0 => C19_IsRounded(it.predicted_profit_margin, it.price, it.cost)
          /\ (it.price = 20 /\ it.cost = 12) => it.predicted_profit_margin = 4000

\* C20: within a publish each of the refresh request and the listing calls
\* is issued at most once, and, every awaited call returning, each publish
\* in flight reaches its response.
C20_NothingRetried ==
    /\ [](\A r \in Slots : \A api \in RefreshApis \cup ListingApis :
             IsPublish(req[r]) => Cardinality(CallsOf(req[r], api)) <= 1)
    /\ \A r \in Slots :
          (InFlight(req[r]) /\ IsPublish(req[r])) ~> (req[r].pc = "done")

\* C20 witness: an eBay publish has ended after four calls: the refresh, the
\* inventory call, the offer call and the publish call.
C20_Witness ==
    \E r \in Slots :
        /\ req[r].kind = "publish_ebay" /\ req[r].pc = "done"
        /\ Len(req[r].calls) = 4
        /\ req[r].calls[1].api = "ebay_refresh" /\ req[r].calls[4].api = "ebay_publish"

\* The refresh token the session stores for the provider of q.
StoredRefreshToken(s, q) ==
    IF q.kind = "publish_ebay" THEN s.ebay_refresh_token ELSE s.etsy_refresh_token

\* C21: a publish that passes the checks before its validity check sends a
\* refresh request if and only if now is later than the stored expiry (a
\* missing expiry counts as expired) and a refresh token is stored.  With
\* now <= expiry the first call is a listing call carrying the stored access
\* token.  The entering step never writes the session, a publish that ends
\* before the validity check sends no refresh, and a refresh call is always
\* the first call of its invocation.
C21_RefreshIffExpired ==
    /\ [][\A r \in Slots :
            (Enters(r) /\ IsPublish(req'[r]))
            => LET q == req'[r]
                   expiry == StoredExpiry(session, q)
                   expired == expiry = NoKey \/ now > expiry
               IN /\ session' = session
                  /\ q.pc = "done" => q.calls = <<>>
                  /\ InFlight(q)
                     => /\ Len(q.calls) = 1
                        /\ q.calls[1].api \in RefreshApis
                           <=> (expired /\ Present(StoredRefreshToken(session, q)))
                        /\ q.calls[1].api \in RefreshApis
                           => q.calls[1].arg = StoredRefreshToken(session, q)
                        /\ ~expired
                           => /\ q.calls[1].api \in {"ebay_inventory", "etsy_listing"}
                              /\ q.calls[1].token = StoredToken(session, q)
                              /\ Present(q.calls[1].token)]_vars
    /\ [](\A r \in Slots : \A k \in 1..Len(req[r].calls) :
            req[r].calls[k].api \in RefreshApis => k = 1)

\* C21 witness: the boundary of the validity check.  With now equal to the
\* stored expiry and a refresh token stored, a publish has sent its first
\* listing call with the stored access token and no refresh request.
C21_Witness ==
    \E r \in Slots :
        /\ IsPublish(req[r]) /\ InFlight(req[r]) /\ Len(req[r].calls) = 1
        /\ req[r].calls[1].api \in ListingApis
        /\ StoredExpiry(session, req[r]) = now
        /\ Present(StoredRefreshToken(session, req[r]))
        /\ req[r].calls[1].token = StoredToken(session, req[r])

\* The step of slot r issues a listing-protocol call.
C22_IssuesListingCall(r) ==
    /\ IsPublish(req'[r])
    /\ Len(req'[r].calls) = Len(req[r].calls) + 1
    /\ req'[r].calls[Len(req'[r].calls)].api \in ListingApis

\* C22: with a refresh token stored, so that a validity check at this moment
\* would refresh, no listing-protocol call is issued at a moment when the
\* stored expiry is earlier than the current time.
C22_NoCallWithExpiredToken ==
    [][\A r \in Slots :
         (C22_IssuesListingCall(r)
            /\ Present(StoredRefreshToken(req'[r].session, req'[r]))
            /\ Present(StoredExpiry(req'[r].session, req'[r])))
         => ~(StoredExpiry(req'[r].session, req'[r]) < now')]_vars

\* C23: the step that receives an accepted, complete refresh response
\* writes to the session of the request the access token of the response
\* and the expiry now + expires_in, the refresh token of the response when
\* it carries one and the old one otherwise, and changes no other session
\* field: the shop id and name and the fields of the other provider stay as
\* they were.  The response of the invocation stores that session.
C23_RefreshWritesOnlyItsTokens ==
    /\ [][\A r \in Slots :
            (req[r].pc = "refresh" /\ Refreshed(req'[r]))
            => \E e \in ExpiresIn, rt \in {NoKey, issued'} :
                  /\ issued' = issued + 1
                  /\ session' = session
                  /\ req'[r].session =
                       IF req[r].kind = "publish_ebay"
                       THEN [req[r].session EXCEPT
                               !.ebay_access_token = issued',
                               !.ebay_token_expiry = now + e,
                               !.ebay_refresh_token = IF rt = NoKey THEN @ ELSE rt]
                       ELSE [req[r].session EXCEPT
                               !.etsy_access_token = issued',
                               !.etsy_token_expiry = now + e,
                               !.etsy_refresh_token = IF rt = NoKey THEN @ ELSE rt]]_vars
    /\ [][\A r \in Slots :
            (InFlight(req[r]) /\ Completes(r) /\ Refreshed(req[r]))
            => session' = req[r].session]_vars

\* C23 witness: in a session with both marketplaces connected and a shop
\* stored, an Etsy publish has refreshed with a response that carried no
\* refresh token; the old refresh token is still in its session.
C23_Witness ==
    \E r \in Slots :
        /\ Refreshed(req[r]) /\ req[r].kind = "publish_etsy" /\ InFlight(req[r])
        /\ Len(req[r].calls) >= 2
        /\ req[r].session.etsy_access_token = req[r].calls[2].token
        /\ Present(req[r].session.etsy_refresh_token)
        /\ req[r].session.etsy_refresh_token < req[r].session.etsy_access_token
        /\ Present(req[r].session.etsy_shop_id)
        /\ Present(req[r].session.ebay_access_token)
        /\ Present(req[r].session.ebay_refresh_token)

\* The eBay publish q has written the catalog: it is bound for the redirect
\* to the catalog page or has answered with it.
C24_Persisted(q) ==
    /\ q.kind = "publish_ebay" /\ Ended(q)
    /\ q.status = 307 /\ q.detail = "/catalog_ui"

\* C24: when an eBay publish writes the catalog while another slot holds an
\* eBay publish of the same item that has written it, each of the two has
\* its own accepted publish call, and the catalog written by the step
\* records the item as published with the listing id of the invocation
\* that persists now; if the other invocation obtained a different listing
\* id, no catalog entry holds it.
C24_LastWriterWins ==
    [][\A r1, r2 \in Slots :
         (/\ r1 # r2
          /\ req[r2].pc = "publish" /\ Saves(r2)
          /\ C24_Persisted(req[r1]) /\ req'[r1] = req[r1]
          /\ req[r1].item_id = req[r2].item_id)
         => /\ HasOk(req[r1], "ebay_publish") /\ HasOk(req'[r2], "ebay_publish")
            /\ RecordedEbay(catalog', req'[r2])
            /\ req[r1].listing_id # req'[r2].listing_id
               => \A k \in 1..Len(catalog') :
                     catalog'[k].ebay_listing_id # req[r1].listing_id]_vars

\* C24 witness: two publishes of the same item are in flight at the same
\* time, both have had their three calls accepted, with different listing
\* ids, and have written the catalog, neither has answered yet, and the
\* catalog holds the id of one of them only.
C24_Witness ==
    \E r1, r2 \in Slots :
        /\ r1 # r2
        /\ C24_Persisted(req[r1]) /\ req[r1].pc = "close"
        /\ C24_Persisted(req[r2]) /\ req[r2].pc = "close"
        /\ C3_AllThreeOk(req[r1]) /\ C3_AllThreeOk(req[r2])
        /\ req[r1].item_id = req[r2].item_id
        /\ req[r1].listing_id = Str(1) /\ req[r2].listing_id = Str(2)
        /\ RecordedEbay(catalog, req[r2])
        /\ \A k \in 1..Len(catalog) : catalog[k].ebay_listing_id # Str(1)

\* The eBay publish q has responded after its refresh was accepted.
C25_RefreshedAndDone(q) == q.kind = "publish_ebay" /\ Refreshed(q) /\ q.pc = "done"

\* C25: there is no refresh guard.  An eBay publish that reaches its
\* validity check with an expired token and a stored refresh token, while
\* another invocation awaits its refresh request, sends a refresh request of
\* its own with the same refresh token.  When the second of two eBay
\* publishes whose refresh was accepted responds, the session finally
\* stored is the one its refresh wrote, replacing what the other invocation
\* stored: the last write wins.
C25_RefreshesRace ==
    /\ [][\A r, o \in Slots :
            (/\ r # o /\ Enters(r) /\ req'[r].kind = "publish_ebay"
             /\ req[o].pc = "refresh" /\ req[o].kind = "publish_ebay"
             /\ ~EbayNotAuthenticated(session)
             /\ InRange(req'[r].item_id, catalog)
             /\ ~ItemNotFound(req'[r].item_id, catalog)
             /\ Expired(now, session.ebay_token_expiry)
             /\ Present(session.ebay_refresh_token))
            => /\ req'[r].pc = "refresh" /\ Len(req'[r].calls) = 1
               /\ req'[r].calls[1].api = "ebay_refresh"
               /\ req'[r].calls[1].arg = req[o].calls[1].arg]_vars
    /\ [][\A r, o \in Slots :
            (/\ r # o /\ Completes(r) /\ InFlight(req[r])
             /\ C25_RefreshedAndDone(req'[r])
             /\ C25_RefreshedAndDone(req[o]) /\ req'[o] = req[o])
            => /\ session' = req[r].session
               /\ session'.ebay_access_token = req'[r].calls[2].token
               /\ session'.ebay_access_token # req[o].calls[2].token]_vars

\* C25 witness: two eBay publishes ran at the same time with the same
\* expired token: one entered while the other slot awaited a refresh
\* request, and the refresh of the other one was answered before its own.
\* Both had their refresh accepted and both have responded; the session
\* finally stored holds the access token of the refresh that completed last
\* (the later of the two tokens issued).
C25_Witness ==
    \E r, o \in Slots :
        /\ r # o
        /\ C25_RefreshedAndDone(req[r]) /\ C25_RefreshedAndDone(req[o])
        /\ req[r].raced
        /\ req[r].calls[1].arg = req[o].calls[1].arg
        /\ req[o].calls[2].token < req[r].calls[2].token
        /\ session.ebay_access_token = req[r].calls[2].token

\* C26: in every eBay publish the offer call carries the SKU of the
\* inventory call of the same invocation, the publish call addresses the
\* offer id the handler read from the offer response, and the publish call
\* is never issued for an absent (null) offer id.
C26_EbayStepsChained ==
    \A r \in Slots :
        LET q == req[r] IN
        q.kind = "publish_ebay"
        => /\ \A k \in CallsOf(q, "ebay_offer") :
                /\ k > 1 /\ q.calls[k - 1].api = "ebay_inventory"
                /\ q.calls[k].arg = q.calls[k - 1].arg
           /\ \A k \in CallsOf(q, "ebay_publish") :
                /\ k > 1 /\ q.calls[k - 1].api = "ebay_offer"
                /\ InFlight(q) => q.calls[k].arg = q.offer_id
                /\ Present(q.calls[k].arg)

\* The results of the calls a callback made, in order.
C27_Results(q) == [k \in 1..Len(q.calls) |-> q.calls[k].result]

\* The response of a callback as the results of its calls decide it: a
\* redirect to the catalog after an accepted, complete token response
\* (for Etsy, when the shop lookup was sent and neither raised nor lacked
\* a key), else 500.
C27_Redirects(q) ==
    IF q.kind = "callback_ebay"
    THEN C27_Results(q) = <<"ok">>
    ELSE C27_Results(q) \in {<<"ok", "ok">>, <<"ok", "fail">>}

\* The three configuration variables of the provider of an authorize
\* request are set.
C27_Configured(kind) ==
    IF kind = "auth_ebay"
    THEN environ.EBAY_CLIENT_ID /\ environ.EBAY_CLIENT_SECRET /\ environ.EBAY_REDIRECT_URI
    ELSE environ.ETSY_CLIENT_ID /\ environ.ETSY_CLIENT_SECRET /\ environ.ETSY_REDIRECT_URI

\* C27: the state token is neither persisted nor verified, in any
\* deployment.  An authorize request answers at once (the redirect when
\* its provider is configured, else 500) and changes neither the session
\* nor the catalog.  A callback sends its token request
\* whatever state value it received, a missing one included, without a
\* session write; what it writes to its session when a call returns (the
\* three token fields from the token response, the shop id and name from
\* the shop lookup, nothing else), its response and the session its
\* response stores are decided by the results of its provider calls and the
\* configuration alone.
C27_StateIgnored ==
    /\ [][\A r \in Slots :
            (Enters(r) /\ req'[r].kind \in {"auth_ebay", "auth_etsy"})
            => /\ session' = session /\ catalog' = catalog
               /\ req'[r].pc = "done" /\ req'[r].calls = <<>>
               /\ req'[r].status = IF C27_Configured(req'[r].kind) THEN 307 ELSE 500]_vars
    /\ [][\A r \in Slots :
            (Enters(r) /\ IsCallback(req'[r]))
            => /\ session' = session /\ catalog' = catalog
               /\ req'[r].pc = "token"
               /\ C27_Results(req'[r]) = <<"pending">>
               /\ req'[r].calls[1].api \in {"ebay_token", "etsy_token"}]_vars
    /\ [][\A r \in Slots :
            (req[r].pc = "token" /\ IsCallback(req[r]) /\ req'[r] # req[r])
            => LET q == req'[r] IN
               /\ session' = session /\ catalog' = catalog
               /\ q.calls[1].result \in {"ok", "incomplete"}
                     <=> issued' = issued + 1
               /\ q.calls[1].result = "fail"
                     => q.pc = "close" /\ q.session = req[r].session
               /\ q.calls[1].result = "raise" => q.pc = "done"
               /\ q.calls[1].result \in {"ok", "incomplete"}
                     => \E rt \in {None, issued'}, e \in ExpiresIn \cup {NoKey} :
                           /\ e = NoKey <=> q.calls[1].result = "incomplete"
                           /\ q.session =
                                IF q.kind = "callback_ebay"
                                THEN [req[r].session EXCEPT
                                        !.ebay_access_token = issued',
                                        !.ebay_refresh_token = rt,
                                        !.ebay_token_expiry =
                                            IF e = NoKey THEN @ ELSE now + e]
                                ELSE [req[r].session EXCEPT
                                        !.etsy_access_token = issued',
                                        !.etsy_refresh_token = rt,
                                        !.etsy_token_expiry =
                                            IF e = NoKey THEN @ ELSE now + e]
               /\ q.calls[1].result = "ok"
                     => IF q.kind = "callback_etsy" /\ environ.ETSY_CLIENT_ID
                        THEN q.pc = "shop" /\ C27_Results(q) = <<"ok", "pending">>
                        ELSE q.pc = "close" /\ Len(q.calls) = 1]_vars
    /\ [][\A r \in Slots :
            (req[r].pc = "shop" /\ IsCallback(req[r]) /\ req'[r] # req[r])
            => LET q == req'[r] IN
               /\ session' = session /\ catalog' = catalog
               /\ q.pc = "close"
               /\ q.calls[2].result = "ok"
                     => \E id \in ShopIds, name \in ShopNames :
                           q.session = [req[r].session EXCEPT !.etsy_shop_id = id,
                                                              !.etsy_shop_name = name]
               /\ q.calls[2].result \in {"fail", "raise"}
                     => q.session = req[r].session
               /\ q.calls[2].result = "incomplete"
                     => \/ q.session = req[r].session
                        \/ \E id \in ShopIds :
                              q.session = [req[r].session EXCEPT !.etsy_shop_id = id]]_vars
    /\ [][\A r \in Slots :
            (Completes(r) /\ IsCallback(req'[r]))
            => LET q == req'[r] IN
               /\ catalog' = catalog
               /\ IF C27_Redirects(q)
                  THEN q.status = 307 /\ q.detail = "/catalog_ui"
                  ELSE q.status = 500
               /\ req[r].pc = "close"
                     => q.calls = req[r].calls /\ session' = req[r].session
               /\ req[r].pc # "close"
                     => /\ q.calls[Len(q.calls)].result = "raise"
                        /\ session' = session /\ req[r].session = session]_vars

\* C27 witness: an authorization handed out one state value, a callback
\* arrived with another one, and it ended with the redirect to the catalog
\* and the access token stored.
C27_Witness ==
    \E r, o \in Slots :
        /\ req[o].kind = "auth_ebay" /\ req[o].status = 307
        /\ req[r].kind = "callback_ebay" /\ req[r].pc = "done"
        /\ Present(req[r].state) /\ req[r].state # req[o].state
        /\ req[r].status = 307 /\ req[r].detail = "/catalog_ui"
        /\ Present(session.ebay_access_token)

\* The state of an item for the other provider than that of the publish q.
C28_OtherProvider(item, q) ==
    IF q.kind = "publish_ebay"
    THEN <<item.published_etsy, item.etsy_listing_id>>
    ELSE <<item.published_ebay, item.ebay_listing_id>>

\* C28: the step in which a publish that ran alone writes the catalog, its
\* last call having returned, keeps the catalog length, every other item,
\* and of the item it indexed the price, the cost, the margin and the
\* published flag and listing id of the other provider; the flag of its own
\* provider is set.  No other step of a publish changes the catalog.
C28_PublishWritesOnlyItsProvider ==
    /\ [][\A r \in Slots :
            (req'[r] # req[r] /\ IsPublish(req'[r]) /\ ~Saves(r))
            => catalog' = catalog]_vars
    /\ [][\A r \in Slots :
         Saves(r)
         => LET q == req'[r]
                k == Index(q.item_id, catalog)
            IN /\ Len(catalog') = Len(catalog)
               /\ \A i \in 1..Len(catalog) : i # k => catalog'[i] = catalog[i]
               /\ catalog'[k].price = catalog[k].price
               /\ catalog'[k].cost = catalog[k].cost
               /\ catalog'[k].predicted_profit_margin = catalog[k].predicted_profit_margin
               /\ C28_OtherProvider(catalog'[k], q) = C28_OtherProvider(catalog[k], q)
               /\ PublishedBy(catalog'[k], q)]_vars

\* C28 witness: an item already published on eBay with a listing id was
\* published on Etsy, next to a second item; the item carries both states.
C28_Witness ==
    \E r \in Slots :
        /\ Succeeded(req[r]) /\ req[r].kind = "publish_etsy" /\ req[r].item_id = 0
        /\ Len(catalog) = 2
        /\ catalog[1].published_ebay /\ catalog[1].ebay_listing_id = Str(1)
        /\ catalog[1].published_etsy /\ catalog[1].etsy_listing_id = Str(1)
        /\ ~catalog[2].published_ebay /\ ~catalog[2].published_etsy

\* The session fields of one provider.
C29_EbayFields(s) ==
    <<s.ebay_access_token, s.ebay_refresh_token, s.ebay_token_expiry>>
C29_EtsyFields(s) ==
    <<s.etsy_access_token, s.etsy_refresh_token, s.etsy_token_expiry, s.etsy_shop_id>>
C29_ForEbay(q) == q.kind \in {"callback_ebay", "publish_ebay"}
C29_ForEtsy(q) == q.kind \in {"callback_etsy", "publish_etsy"}

\* C29: no step of an eBay callback or publish, its refresh included,
\* changes the Etsy access token, refresh token, expiry or shop id, in the
\* session of the request or in the cookie, and no step of an Etsy callback
\* or publish changes the eBay access token, refresh token or expiry,
\* whatever the step's outcome.
C29_ProvidersIndependent ==
    [][\A r \in Slots :
         req'[r] # req[r]
         => /\ C29_ForEbay(req'[r])
               => /\ C29_EtsyFields(Held(r)') = C29_EtsyFields(Held(r))
                  /\ C29_EtsyFields(session') = C29_EtsyFields(session)
            /\ C29_ForEtsy(req'[r])
               => /\ C29_EbayFields(Held(r)') = C29_EbayFields(Held(r))
                  /\ C29_EbayFields(session') = C29_EbayFields(session)]_vars

\* C29 witness: with Etsy connected and its shop stored, the eBay callback
\* ended authorized; the session holds the tokens of both providers.
C29_Witness ==
    \E r \in Slots :
        /\ req[r].kind = "callback_ebay" /\ Authorized(req[r])
        /\ Present(session.ebay_access_token)
        /\ Present(session.etsy_access_token)
        /\ session.etsy_access_token < session.ebay_access_token
        /\ Present(session.etsy_refresh_token)
        /\ Present(session.etsy_token_expiry)
        /\ Present(session.etsy_shop_id)

\* C30: with one request at a time, a product enters the catalog with both
\* published flags false, and no step sets a published flag that is true
\* back to false or replaces a stored listing id by none.
C30_PublishedMonotone ==
    [][/\ Len(catalog') >= Len(catalog)
       /\ \A i \in 1..Len(catalog') :
            IF i > Len(catalog)
            THEN ~catalog'[i].published_ebay /\ ~catalog'[i].published_etsy
            ELSE /\ catalog[i].published_ebay => catalog'[i].published_ebay
                 /\ catalog[i].published_etsy => catalog'[i].published_etsy
                 /\ Present(catalog[i].ebay_listing_id)
                    => Present(catalog'[i].ebay_listing_id)
                 /\ Present(catalog[i].etsy_listing_id)
                    => Present(catalog'[i].etsy_listing_id)]_vars

\* C31: the two application files are equivalent for the publishing
\* workflow.  The callback and refresh handlers and the code of the publish
\* handlers after their first await are the same; so every step in which
\* /publish/etsy of main-app.py enters is a step of /publish/etsy of
\* main.py for the same session, catalog, clock and item id: the same calls
\* issued, the same response, the same session and catalog.
C31_AppVariantsEquivalent ==
    [][\A r \in Slots : \A i \in ItemIds :
         publish_etsy_app(r, i) => publish_etsy(r, i)]_vars

====
